---- MODULE Spec2Model ----
(***************************************************************************)
(* Rolling-window temporal snapshot pipeline (src/rolling_windows).        *)
(*                                                                         *)
(*   Spec        run_windows (pipeline.py): base graph, window loop,       *)
(*               skip-existing check, retry loop, view cleanup, manifest.  *)
(*   SpecDates   iter_period_windows (dates.py): the window planner.       *)
(*   SpecFilter  build_filter_predicates (pipeline.py) evaluated by the    *)
(*               engine's graph filter on a small base graph.              *)
(*   SpecBase    ensure_base_graph (pipeline.py).                          *)
(*   SpecBlocks  the feature blocks (feature_blocks.py, parquet.py).       *)
(*   SpecLP      run_link_prediction_workflow (link_prediction.py).        *)
(*   SpecRace    the horse race of run_link_prediction_workflow.           *)
(*   SpecAlgos   run_window_algorithms (metrics.py).                       *)
(*                                                                         *)
(* Timestamps: the source computes epoch milliseconds of midnight UTC on   *)
(* the first day of a month.  Every such value is a whole number of        *)
(* seconds, and TLC's integers are 32 bit wide, so every *_ms value of the *)
(* model is held in seconds (the source value divided by 1000).  Order and *)
(* equality of timestamps are unaffected.                                  *)
(***************************************************************************)
EXTENDS Integers, Sequences, FiniteSets, TLC

VARIABLES
    \* ---- SpecDates: one call of iter_period_windows
    dIn,            \* the keyword arguments of the call
    dOut,           \* its result: the raised error, or the list of windows
    \* ---- SpecFilter: the window filter applied to one base graph
    fIn,            \* base graph, window and configuration
    fOut,           \* the filtered views
    \* ---- SpecBase: one call of ensure_base_graph
    bIn,            \* arguments, the engine's catalog and what the engine will answer
    bOut,           \* how the call ended and the catalog it left
    \* ---- SpecBlocks: the feature-block slicing of one bank_feats vector
    kIn,            \* the vector, as the list of its values
    kOut,           \* the exported block columns
    \* ---- SpecLP: one call of run_link_prediction_workflow
    lIn,            \* the graph store, the window and what training will yield
    lOut,           \* position in the workflow, its locals and its result
    \* ---- SpecRace: the horse race of the model variants
    race,           \* the variants run so far and the best one
    \* ---- SpecAlgos: one call of run_window_algorithms
    aIn,            \* the configuration flags and the call that fails, if any
    aOut,           \* the calls issued and how the function ended
    \* ---- Spec: one call of run_windows
    pc,             \* position in run_windows
    cfg,            \* RollingWindowConfig
    skip_existing,  \* parameter skip_existing
    rebuild_base_graph, \* parameter rebuild_base_graph
    catalog,        \* the engine's graph catalog: names of the live graphs
    gds,            \* the connection the handle `gds` belongs to
    base_G,         \* the connection the handle `base_G` belongs to (0: unbound)
    windows,        \* the planned windows
    wi,             \* index of the window of the current loop iteration
    need_nodes,     \* locals of the loop iteration
    need_edges,
    attempt,
    exc,            \* the exception in flight: "none", "transient" (of a class the
                    \* retry handler catches), "other"
    flow,           \* how the current attempt leaves the try block
    ctx,            \* number of `with gds.graph.filter(...)` blocks entered
    df,             \* the node frame of the attempt (exists = FALSE: None)
    df_edges,       \* the edge frame of the attempt
    node_files,     \* output_dir/nodes/node_features_<window>.parquet, per window
    edge_files,     \* output_dir/edges/edge_list_<window>.parquet, per window
    manifest_rows,  \* the rows collected in memory
    manifest_file,  \* output_dir/manifest/manifest_<params_hash>.parquet
    faults,         \* number of errors the environment has raised so far
    issued,         \* the remote calls issued so far: <<phase, procedure>>
    attempts,       \* per window: attempts started
    fails,          \* per window: attempts ended by a handled transient error
    completed,      \* per window: "no", "skipped" or "processed"
    files0,         \* the snapshot files as they were when the run began
    slept,          \* per window: the delays passed to time.sleep, in order
    nontransient_at \* per window: the attempt in which an error that is no
                    \* transient condition was raised (0: none)

dvars == <<dIn, dOut>>
fvars == <<fIn, fOut>>
bvars == <<bIn, bOut>>
kvars == <<kIn, kOut>>
lvars == <<lIn, lOut, race>>
avars == <<aIn, aOut>>
pvars == <<pc, cfg, skip_existing, rebuild_base_graph, catalog, gds, base_G, windows, wi,
           need_nodes, need_edges, attempt, exc, flow, ctx, df, df_edges, node_files,
           edge_files, manifest_rows, manifest_file, faults, issued, attempts, fails,
           completed, files0, slept, nontransient_at>>
vars == <<dvars, fvars, bvars, kvars, lvars, avars, pvars>>

(***************************************************************************)
(* dates.py                                                                *)
(***************************************************************************)

\* PeriodType: the supported period types.
PeriodType == {"yearly", "quarterly", "biannual", "monthly"}

IsLeap(y) == (y % 4 = 0 /\ y % 100 # 0) \/ y % 400 = 0

DaysInMonth(y, m) ==
    IF m = 2 THEN (IF IsLeap(y) THEN 29 ELSE 28)
    ELSE IF m \in {4, 6, 9, 11} THEN 30 ELSE 31

LeapDaysBefore(y) == ((y - 1) \div 4) - ((y - 1) \div 100) + ((y - 1) \div 400)

RECURSIVE DaysBeforeMonth(_, _)
DaysBeforeMonth(y, m) ==
    IF m <= 1 THEN 0 ELSE DaysBeforeMonth(y, m - 1) + DaysInMonth(y, m - 1)

\* datetime(year, month_num, 1, tzinfo=utc).timestamp(), in whole seconds.
utc_timestamp(year, month_num) ==
    ((365 * (year - 1970)) + (LeapDaysBefore(year) - LeapDaysBefore(1970))
        + DaysBeforeMonth(year, month_num)) * (24 * 60 * 60)

year_start_ms(year) == utc_timestamp(year, 1)

\* None is modelled as 0: the source tests `if quarter:`, false for both.
period_start_ms(year, quarter, half, month) ==
    LET month_num ==
            IF quarter # 0 THEN ((quarter - 1) * 3) + 1
            ELSE IF half # 0 THEN ((half - 1) * 6) + 1
            ELSE IF month # 0 THEN month
            ELSE 1
    IN  utc_timestamp(year, month_num)

Window(start_year, end_year_inclusive, start_ms, end_ms, period_type, quarter, half, month) ==
    [start_year |-> start_year, end_year_inclusive |-> end_year_inclusive,
     start_ms |-> start_ms, end_ms |-> end_ms, period_type |-> period_type,
     quarter |-> quarter, half |-> half, month |-> month]

\* `while end_q > 4: end_q -= 4; end_y += 1` (and its copies for halves and
\* months): <<end period, end year>>.
RollOverNoCarry(end_p, end_y, per_year) ==
    <<((end_p - 1) % per_year) + 1, end_y>>

RECURSIVE RollOver(_, _, _)
RollOver(end_p, end_y, per_year) ==
    IF end_p > per_year
    THEN RollOver(end_p - per_year, end_y + 1, per_year)
    ELSE <<end_p, end_y>>

\* windows[::step_size]
SliceStepNotApplied(all_windows, step_size) == all_windows

SliceStep(all_windows, step_size) ==
    [i \in 1..((Len(all_windows) + step_size - 1) \div step_size) |->
        all_windows[1 + ((i - 1) * step_size)]]

\* for y in range(start_year, end_start_year + 1, step_size)
YearlyWindows(start_year, end_start_year, window_size, step_size) ==
    [i \in 1..(((end_start_year - start_year) \div step_size) + 1) |->
        LET y == start_year + ((i - 1) * step_size)
            end_year_exclusive == y + window_size
        IN  Window(y, end_year_exclusive - 1, year_start_ms(y),
                   year_start_ms(end_year_exclusive), "yearly", 0, 0, 0)]

\* for y in range(start_year, end_start_year + 1): for p in range(1, per_year + 1)
SubYearWindows(start_year, end_start_year, window_size, period, per_year) ==
    [k \in 1..((end_start_year - start_year + 1) * per_year) |->
        LET y == start_year + ((k - 1) \div per_year)
            p == ((k - 1) % per_year) + 1
            q == IF period = "quarterly" THEN p ELSE 0
            h == IF period = "biannual" THEN p ELSE 0
            m == IF period = "monthly" THEN p ELSE 0
            e == RollOver(p + window_size, y, per_year)
            end_p == e[1]
            end_y == e[2]
            end_ms == period_start_ms(end_y,
                                      IF period = "quarterly" THEN end_p ELSE 0,
                                      IF period = "biannual" THEN end_p ELSE 0,
                                      IF period = "monthly" THEN end_p ELSE 0)
        IN  Window(y, IF end_p > 1 THEN end_y ELSE end_y - 1,
                   period_start_ms(y, q, h, m), end_ms, period, q, h, m)]

PeriodsPerYear(period) ==
    CASE period = "quarterly" -> 4
      [] period = "biannual" -> 2
      [] period = "monthly" -> 12
      [] OTHER -> 1

Raised(msg) == [raised |-> msg, windows |-> <<>>]
Returned(all_windows) == [raised |-> "none", windows |-> all_windows]

iter_period_windows(start_year, end_start_year, window_size, step_size, period_type) ==
    IF window_size <= 0 THEN Raised("ValueError: window_size must be positive")
    ELSE IF step_size <= 0 THEN Raised("ValueError: step_size must be positive")
    ELSE IF end_start_year < start_year
    THEN Raised("ValueError: end_start_year must be >= start_year")
    ELSE IF period_type \notin PeriodType THEN Raised("ValueError: Invalid period_type")
    ELSE IF period_type = "yearly"
    THEN Returned(YearlyWindows(start_year, end_start_year, window_size, step_size))
    ELSE LET all_windows == SubYearWindows(start_year, end_start_year, window_size,
                                           period_type, PeriodsPerYear(period_type))
         IN  Returned(IF step_size > 1 THEN SliceStep(all_windows, step_size)
                                     ELSE all_windows)

iter_year_windows(start_year, end_start_year, window_years, step_years) ==
    iter_period_windows(start_year, end_start_year, window_years, step_years, "yearly")

(***************************************************************************)
(* pipeline.py: the window filter                                          *)
(***************************************************************************)

\* The node labels and relationship types of the base projection
\* (ensure_base_graph: node_projection, RollingWindowConfig.rel_types).
NodeLabels == {"Bank", "Company", "Person"}
RelTypes == {"OWNERSHIP", "MANAGEMENT", "FAMILY"}

\* _relationship_type_predicate: " OR ".join(f"r:{t}" for t in rel_types)
relationship_type_predicate(r, rel_types) == r.type \in rel_types

\* build_filter_predicates: node_filter, evaluated on node n.
node_filter(n, start, end) ==
    /\ n.label \in {"Bank", "Company", "Person"}
    /\ n.tStart < end
    /\ n.tEnd > start

\* build_filter_predicates: rel_filter with params includeImputed01,
\* evaluated on relationship r.
rel_filter_ignoring_flag(r, start, end, rel_types, includeImputed01) ==
    /\ relationship_type_predicate(r, rel_types)
    /\ r.tStart < end
    /\ r.tEnd > start

rel_filter(r, start, end, rel_types, includeImputed01) ==
    /\ relationship_type_predicate(r, rel_types)
    /\ r.tStart < end
    /\ r.tEnd > start
    /\ (r.type # "FAMILY" \/ includeImputed01 = 1 \/ r.imputedFlag = 0)

\* gds.graph.filter(name, G, node_filter, rel_filter): the nodes of G that
\* satisfy the node filter, and the relationships of G that satisfy the
\* relationship filter and join two kept nodes.
temporal_filter(g, start, end, rel_types, includeImputed01) ==
    LET keep == {i \in DOMAIN g.nodes : node_filter(g.nodes[i], start, end)}
    IN  [nodes |-> keep,
         rels |-> {r \in g.rels :
                     /\ rel_filter(r, start, end, rel_types, includeImputed01)
                     /\ r.src \in keep
                     /\ r.dst \in keep}]

\* gds.degree.mutate(temp_G, mutateProperty="active_degree"): the degree of
\* the default orientation, NATURAL, counts the relationships that leave a
\* node (metrics.py asks for orientation="REVERSE" to count those that
\* enter it).
active_degree(g) ==
    [i \in g.nodes |-> Cardinality({r \in g.rels : r.src = i})]

\* final_node_filter = "n.active_degree > 0.0 OR n:Bank OR n:Company"
final_node_filter(n, degree) ==
    degree > 0 \/ n.label = "Bank" \/ n.label = "Company"

\* gds.graph.filter(window_graph_name, temp_G, final_node_filter, "*"): the
\* nodes of temp_G that satisfy the filter and every relationship of temp_G
\* that joins two of them.
final_filter(base_nodes, temp_G, degree) ==
    LET keep == {i \in temp_G.nodes : final_node_filter(base_nodes[i], degree[i])}
    IN  [nodes |-> keep,
         rels |-> {r \in temp_G.rels : r.src \in keep /\ r.dst \in keep}]

(***************************************************************************)
(* SpecFilter: the filter applied to every base graph of a bounded set.    *)
(* The window is [2, 4); validity intervals end at, overlap, lie in, start *)
(* at the end of, or cover it.                                             *)
(***************************************************************************)
FilterWindow == [start_ms |-> 2, end_ms |-> 4]
Intervals == {<<1, 2>>, <<1, 3>>, <<3, 4>>, <<4, 5>>, <<1, 5>>}
NodeIds == {1, 2}

FilterNodes ==
    {[label |-> l, tStart |-> iv[1], tEnd |-> iv[2]] : l \in NodeLabels, iv \in Intervals}

FilterRels ==
    {[type |-> t, src |-> 1, dst |-> 2, tStart |-> iv[1], tEnd |-> iv[2], imputedFlag |-> f] :
        t \in RelTypes, iv \in Intervals, f \in {0, 1}}

FilterInit ==
    /\ \E ns \in [NodeIds -> FilterNodes], r \in FilterRels,
          rt \in {RelTypes, {"OWNERSHIP", "FAMILY"}, {"OWNERSHIP", "MANAGEMENT"}},
          inc \in {0, 1} :
            fIn = [graph |-> [nodes |-> ns, rels |-> {r}],
                   rel_types |-> rt, include_imputed01 |-> inc]
    /\ fOut = [stage |-> "base", nodes |-> {}, rels |-> {}, active_degree |-> <<>>,
               node_count |-> 0]

\* Pass 1 of run_windows: the temporal filter of the base graph.
TemporalStage ==
    /\ fOut.stage = "base"
    /\ LET t == temporal_filter(fIn.graph, FilterWindow.start_ms, FilterWindow.end_ms,
                                fIn.rel_types, fIn.include_imputed01)
       IN  fOut' = [fOut EXCEPT !.stage = "temporal", !.nodes = t.nodes, !.rels = t.rels]
    /\ UNCHANGED <<fIn, dvars, bvars, kvars, lvars, avars, pvars>>

\* Pass 2 of run_windows: gds.degree.mutate on the temporal-stage view.
DegreeStage ==
    /\ fOut.stage = "temporal"
    /\ fOut' = [fOut EXCEPT !.stage = "degree", !.active_degree = active_degree(fOut)]
    /\ UNCHANGED <<fIn, dvars, bvars, kvars, lvars, avars, pvars>>

\* Pass 3 of run_windows: the final filter of the temporal-stage view; the
\* node frame streamed from the window graph has one row per node, and
\* node_count = int(df.shape[0]) goes into the manifest row.
FinalStage ==
    /\ fOut.stage = "degree"
    /\ LET G == final_filter(fIn.graph.nodes, fOut, fOut.active_degree)
       IN  fOut' = [fOut EXCEPT !.stage = "final", !.nodes = G.nodes, !.rels = G.rels,
                                !.node_count = Cardinality(G.nodes)]
    /\ UNCHANGED <<fIn, dvars, bvars, kvars, lvars, avars, pvars>>

(***************************************************************************)
(* SpecDates: the planner applied to every input of a bounded set.         *)
(***************************************************************************)
FirstYear == 1999
MaxYearSpan == 1
MaxWindowSize == 13
MaxStepSize == 3

DateInputs ==
    [start_year : FirstYear..(FirstYear + 1),
     span : (-1)..MaxYearSpan,
     window_size : 0..MaxWindowSize,
     step_size : 0..MaxStepSize,
     period_type : PeriodType \cup {"weekly"}]

DatesInit ==
    /\ dIn \in DateInputs
    /\ dOut = Raised("pending")

PlanWindows ==
    /\ dOut.raised = "pending"
    /\ dOut' = iter_period_windows(dIn.start_year, dIn.start_year + dIn.span,
                                   dIn.window_size, dIn.step_size, dIn.period_type)
    /\ UNCHANGED <<dIn, fvars, bvars, kvars, lvars, avars, pvars>>

(***************************************************************************)
(* pipeline.py: run_windows                                                *)
(***************************************************************************)

\* feature_blocks.py: the names of BANK_FEATS_BLOCKS.
BANK_FEATS_BLOCK_NAMES ==
    {"state_feats", "legal_feats", "governance_feats", "finance_feats", "ip_feats", "ops_feats"}

\* RollingWindowConfig: the boolean options the pipeline reads, as the set of
\* those that are set, the edge identifier and the window geometry.
Config(flags, edge_id_property, start_year, end_start_year) ==
    [flags |-> flags, edge_id_property |-> edge_id_property,
     start_year |-> start_year, end_start_year |-> end_start_year,
     window_years |-> 1, step_years |-> 1]

DefaultFlags ==
    {"export_edges", "export_feature_vectors", "export_feature_blocks",
     "run_louvain", "run_wcc", "run_fastrp"}

\* gds_config_metadata and stable_hash_dict: the fingerprint is a hash of
\* every option of the configuration; it is modelled by the options
\* themselves (distinct configurations have distinct fingerprints).
gds_config_metadata(c) == c
stable_hash_dict(metadata) == metadata
NoHash == Config({}, "", 0, 0)

\* run_window_algorithms: the property names it returns, in call order.
run_window_algorithms(c, has_family) ==
    <<"page_rank", "in_degree", "out_degree", "out_degree">>
    \o (IF has_family THEN <<"family_degree">> ELSE <<>>)
    \o <<"betweenness", "closeness", "eigenvector">>
    \o (IF "run_wcc" \in c.flags THEN <<"wcc">> ELSE <<>>)
    \o (IF "run_louvain" \in c.flags THEN <<"community_louvain">> ELSE <<>>)
    \o (IF "run_fastrp" \in c.flags THEN <<"fastrp_embedding">> ELSE <<>>)
    \o (IF "run_hashgnn" \in c.flags THEN <<"hash_gnn_embedding">> ELSE <<>>)
    \o (IF "run_node2vec" \in c.flags THEN <<"node2vec_embedding">> ELSE <<>>)

\* Lines 250-259: the node columns the skip check requires.
required_node_cols(c) ==
    (IF "export_feature_vectors" \in c.flags
        THEN {"bank_feats", "network_feats", "is_dead"} ELSE {})
    \cup (IF "export_feature_blocks" \in c.flags
        THEN BANK_FEATS_BLOCK_NAMES \cup {"other_feats"} ELSE {})
    \cup (IF "run_hashgnn" \in c.flags THEN {"hash_gnn_embedding"} ELSE {})
    \cup (IF "run_node2vec" \in c.flags THEN {"node2vec_embedding"} ELSE {})

\* f"source_{cfg.edge_id_property}", f"target_{cfg.edge_id_property}"
source_col(edge_id_property) ==
    IF edge_id_property = "Id" THEN "source_Id" ELSE "source_neo4jImportId"
target_col(edge_id_property) ==
    IF edge_id_property = "Id" THEN "target_Id" ELSE "target_neo4jImportId"

\* Lines 276-282: the edge columns the skip check requires.
required_edge_cols(c) ==
    {"sourceNodeId", "targetNodeId", "relationshipType",
     source_col(c.edge_id_property), target_col(c.edge_id_property)}

Range(s) == {s[i] : i \in DOMAIN s}

\* The columns of the node frame when it is written (lines 389-533).
node_frame_cols(c) ==
    Range(run_window_algorithms(c, TRUE))
    \cup (IF "export_feature_vectors" \in c.flags THEN {"is_dead"} ELSE {})
    \cup {"gds_id", "nodeId", "nodeLabels", "Id", "entity_id"}
    \cup (IF "export_feature_vectors" \in c.flags THEN {"bank_feats", "network_feats"}
          ELSE IF "export_feature_blocks" \in c.flags THEN {"bank_feats"} ELSE {})
    \cup {"window_start_ms", "window_end_ms", "window_start_year",
          "window_end_year_inclusive", "window_graph_name", "params_hash",
          "total_degree", "fcr_temporal"}
    \cup (IF "export_feature_blocks" \in c.flags
          THEN BANK_FEATS_BLOCK_NAMES \cup {"other_feats"} ELSE {})

\* The columns of the edge frame when it is written (export_window_edges,
\* lines 536-548).
edge_frame_cols(c) ==
    {"sourceNodeId", "targetNodeId", "relationshipType",
     source_col(c.edge_id_property), target_col(c.edge_id_property),
     "window_start_ms", "window_end_ms", "window_start_year",
     "window_end_year_inclusive", "window_graph_name", "params_hash", "edge_id_property"}

\* metrics.py 149-226, compute_fcr_temporal(gds, cfg, window_start_ms,
\* window_end_ms): the parameters the query is run with (lines 211-217) and
\* the column the returned map is keyed by (line 223).
compute_fcr_temporal(g, c, window_start_ms, window_end_ms) ==
    [params |-> [window_start |-> window_start_ms, window_end |-> window_end_ms],
     key |-> "gds_id"]

\* config.py line 36: id_property.
id_property == "Id"

\* Line 476: compute_fcr_temporal(gds, w.start_ms, w.end_ms, cfg.id_property);
\* lines 477-479: df["entity_id"].map(fcr_map).
fcr_of_window(g, w) ==
    LET fcr_map == compute_fcr_temporal(g, w.start_ms, w.end_ms, id_property)
    IN  [params |-> fcr_map.params, key |-> fcr_map.key, lookup |-> "entity_id"]

NoFcr == [params |-> "none", key |-> "none", lookup |-> "none"]
NoFrame == [exists |-> FALSE, cols |-> {}, rows |-> 0, fcr |-> NoFcr]
Frame(cols, rows) == [exists |-> TRUE, cols |-> cols, rows |-> rows, fcr |-> NoFcr]

NoFile == [exists |-> FALSE, cols |-> {}, rows |-> 0, params_hash |-> NoHash,
           written_by |-> "nobody"]
\* write_parquet(df, path): the file holds the frame's columns and rows.
File(frame, params_hash, writer) ==
    [exists |-> TRUE, cols |-> frame.cols, rows |-> frame.rows,
     params_hash |-> params_hash, written_by |-> writer]

\* The rows the engine streams for the i-th window (the data of the graph
\* store, the same for every run).
node_rows(i) == i + 1
edge_rows(i) == i

params_hash_of(c) == stable_hash_dict(gds_config_metadata(c))

\* Graph names: cfg.base_graph_name, f"rw_{w.name_suffix}", f"temp_rw_...".
BaseGraphName == <<"base_temporal", 0, 0>>
window_graph_name(w) == <<"rw", w.start_year, w.end_year_inclusive>>
temp_graph_name(w) == <<"temp_rw", w.start_year, w.end_year_inclusive>>

\* Lines 261-272: need_nodes after the skip check.
need_nodes_ignoring_skip(skip, file, c) == TRUE

need_nodes_of(skip, file, c) ==
    ~(skip /\ file.exists /\ required_node_cols(c) \subseteq file.cols)

\* Lines 274-292: need_edges after the skip check.
need_edges_of(skip, file, c) ==
    /\ "export_edges" \in c.flags
    /\ ~(skip /\ file.exists /\ required_edge_cols(c) \subseteq file.cols)

\* Lines 305-325 and 564-584: a manifest row.
ManifestRow(w, node_count, edge_count, c, skipped) ==
    [window_graph_name |-> window_graph_name(w),
     window_start_ms |-> w.start_ms, window_end_ms |-> w.end_ms,
     node_count |-> node_count, edge_count |-> edge_count,
     params_hash |-> params_hash_of(c), skipped_existing |-> skipped]

\* Line 590: `if attempt > max_retries: raise`, attempt already incremented.
retries_exhausted_at_once(attempt_now, max_retries) == TRUE
retries_exhausted_never(attempt_now, max_retries) == FALSE

retries_exhausted(attempt_now, max_retries) == attempt_now > max_retries

\* Lines 233 and 629-632: an exception leaving the window loop passes
\* through the `finally` that writes the manifest.
after_loop_raise_without_finally == "raised"

after_loop_raise == "write_manifest"

\* ensure_base_graph (lines 56-147) on catalog `cat`, with the environment
\* failing the call `fail_at` ("none", "get", "drop" or "project") if it is
\* reached: the catalog afterwards, the procedures called, whether the
\* function raised and whether the failure happened.
ensure_base_graph(cat, rebuild, fail_at) ==
    IF BaseGraphName \in cat /\ ~rebuild /\ fail_at # "get"
    THEN [catalog |-> cat, calls |-> {"gds.graph.get"}, raised |-> FALSE,
          faulted |-> FALSE]
    ELSE IF fail_at = "drop"
    THEN [catalog |-> cat, calls |-> {"gds.graph.get", "gds.graph.drop"},
          raised |-> TRUE, faulted |-> TRUE]
    ELSE IF fail_at = "project"
    THEN [catalog |-> cat \ {BaseGraphName},
          calls |-> {"gds.graph.get", "gds.graph.drop", "gds.graph.project"},
          raised |-> TRUE, faulted |-> TRUE]
    ELSE [catalog |-> cat \cup {BaseGraphName},
          calls |-> {"gds.graph.get", "gds.graph.drop", "gds.graph.project"},
          raised |-> FALSE,
          faulted |-> (fail_at = "get" /\ BaseGraphName \in cat /\ ~rebuild)]

\* Lines 353-355: "ensure clean slate": both graphs of the window are dropped
\* from the catalog before the filter stages start.
clean_slate_leaving_window_graph(cat, w) == cat \ {temp_graph_name(w)}
clean_slate(cat, w) == cat \ {window_graph_name(w), temp_graph_name(w)}

\* Line 617: the delay slept after the attempt-th handled failure of a window.
backoff_exponent_not_reduced(b, a) == b * 2 ^ a
backoff(b, a) == b * 2 ^ (a - 1)


(***************************************************************************)
(* Spec: one call of run_windows.  Every remote call may be failed by the  *)
(* environment with a transient engine error (ServiceUnavailable,          *)
(* SessionExpired, ClientError, GqlError), at most MaxFaults times a run.  *)
(***************************************************************************)
NWindows == 2
MaxRetries == 2
MaxFaults == 3

max_retries == MaxRetries
\* Line 211: the default of retry_backoff_s, in seconds.
retry_backoff_s == 2

CfgChoices ==
    {DefaultFlags,
     DefaultFlags \cup {"run_hashgnn", "run_link_prediction"},
     DefaultFlags \ {"export_edges"}}

\* The configurations of an earlier run of the pipeline into the same
\* output_dir; it processed the first k windows before it ended.
EarlierChoices ==
    {<<DefaultFlags, "Id">>,
     <<DefaultFlags \ {"run_fastrp"}, "Id">>,
     <<DefaultFlags, "neo4jImportId">>}

WindowIds == 1..NWindows

\* The window geometry of the run: valid, or invalid in one of the three
\* ways iter_period_windows rejects.
Geometries == {"valid", "end_before_start", "window_years_0", "step_years_0"}
WithGeometry(c, geometry) ==
    CASE geometry = "end_before_start" -> [c EXCEPT !.end_start_year = c.start_year - 1]
      [] geometry = "window_years_0" -> [c EXCEPT !.window_years = 0]
      [] geometry = "step_years_0" -> [c EXCEPT !.step_years = 0]
      [] OTHER -> c

\* The combinations of run and earlier run that are explored: an earlier run
\* left files (k > 0) only before a run with the default flags, and an
\* earlier run of another configuration only before a run that skips.
EarlierRunExplored(e, k) ==
    k = 0 \/ (cfg.flags = DefaultFlags /\ (skip_existing \/ e = <<DefaultFlags, "Id">>))

EarlierNodeFile(c, i) ==
    File(Frame(node_frame_cols(c), node_rows(i)), params_hash_of(c), "earlier run")
EarlierEdgeFile(c, i) ==
    File(Frame(edge_frame_cols(c), edge_rows(i)), params_hash_of(c), "earlier run")

PipelineInit ==
    /\ pc = "ensure_base"
    /\ \E fl \in CfgChoices, geometry \in Geometries :
          cfg = WithGeometry(Config(fl, "Id", FirstYear, FirstYear + NWindows - 1), geometry)
    /\ skip_existing \in BOOLEAN
    /\ \E b \in {"missing", "present", "rebuild"} :
          /\ catalog = IF b = "missing" THEN {} ELSE {BaseGraphName}
          /\ rebuild_base_graph = (b = "rebuild")
    /\ gds = 1
    /\ base_G = 0
    /\ windows = <<>>
    /\ wi = 1
    /\ need_nodes = FALSE
    /\ need_edges = FALSE
    /\ attempt = 0
    /\ exc = "none"
    /\ flow = "none"
    /\ ctx = 0
    /\ df = NoFrame
    /\ df_edges = NoFrame
    /\ \E e \in EarlierChoices, k \in 0..NWindows :
          LET c == Config(e[1], e[2], FirstYear, FirstYear + NWindows - 1)
          IN  /\ EarlierRunExplored(e, k)
              /\ node_files = [i \in WindowIds |->
                    IF i <= k THEN EarlierNodeFile(c, i) ELSE NoFile]
              /\ edge_files = [i \in WindowIds |->
                    IF i <= k /\ "export_edges" \in c.flags
                    THEN EarlierEdgeFile(c, i) ELSE NoFile]
    /\ manifest_rows = <<>>
    /\ manifest_file = [written |-> FALSE, rows |-> <<>>]
    /\ faults = 0
    /\ issued = {}
    /\ attempts = [i \in WindowIds |-> 0]
    /\ fails = [i \in WindowIds |-> 0]
    /\ completed = [i \in WindowIds |-> "no"]
    /\ files0 = [nodes |-> node_files, edges |-> edge_files]
    /\ nontransient_at = [i \in WindowIds |-> 0]
    /\ slept = [i \in WindowIds |-> <<>>]

CanFault == faults < MaxFaults
Outcomes == {"ok"} \cup (IF CanFault THEN {"transient"} ELSE {})
Fault(o) == faults' = faults + (IF o = "ok" THEN 0 ELSE 1)
Issue(phase, procs) == issued' = issued \cup {<<phase, p>> : p \in procs}

\* Where an exception raised inside the try block of an attempt goes first:
\* the __exit__ of the innermost `with` block entered, else the handlers.
RaiseKind(kind) ==
    /\ exc' = kind
    /\ pc' = CASE ctx = 2 -> "exit_inner"
               [] ctx = 1 -> "exit_outer"
               [] OTHER -> IF kind = "transient" THEN "except" ELSE "finally"

\* Line 214: ensure_base_graph(gds, cfg=cfg, rebuild=rebuild_base_graph).
EnsureBase ==
    /\ pc = "ensure_base"
    /\ \E f \in {"none", "get", "drop", "project"} :
         LET r == ensure_base_graph(catalog, rebuild_base_graph, f)
         IN  /\ f = "none" \/ (CanFault /\ r.faulted)
             /\ catalog' = r.catalog
             /\ Issue("base", r.calls)
             /\ faults' = faults + (IF r.faulted THEN 1 ELSE 0)
             /\ IF r.raised
                THEN pc' = "raised_before_try" /\ exc' = "transient"
                ELSE pc' = "get_base" /\ exc' = exc
    /\ UNCHANGED <<dvars, fvars, bvars, kvars, lvars, avars, cfg, skip_existing, rebuild_base_graph, gds, base_G, windows, wi,
                   need_nodes, need_edges, attempt, flow, ctx, df, df_edges, node_files,
                   edge_files, manifest_rows, manifest_file, attempts, fails, completed,
                   files0, nontransient_at, slept>>

\* Line 215: base_G = gds.graph.get(cfg.base_graph_name).
GetBase ==
    /\ pc = "get_base"
    /\ \E o \in Outcomes :
         /\ Fault(o)
         /\ IF o = "ok"
            THEN pc' = "plan" /\ base_G' = gds /\ exc' = exc
            ELSE pc' = "raised_before_try" /\ base_G' = base_G /\ exc' = "transient"
    /\ Issue("base", {"gds.graph.get"})
    /\ UNCHANGED <<dvars, fvars, bvars, kvars, lvars, avars, cfg, skip_existing, rebuild_base_graph, catalog, gds, windows, wi,
                   need_nodes, need_edges, attempt, flow, ctx, df, df_edges, node_files,
                   edge_files, manifest_rows, manifest_file, attempts, fails, completed,
                   files0, nontransient_at, slept>>

\* Lines 220-233: plan the windows, compute the fingerprint, enter `try`.
Plan ==
    /\ pc = "plan"
    /\ LET r == iter_year_windows(cfg.start_year, cfg.end_start_year,
                                  cfg.window_years, cfg.step_years)
       IN  IF r.raised # "none"
           THEN pc' = "raised_before_try" /\ exc' = "other" /\ windows' = windows
           ELSE pc' = "check" /\ exc' = exc /\ windows' = r.windows
    /\ wi' = 1
    /\ UNCHANGED <<dvars, fvars, bvars, kvars, lvars, avars, cfg, skip_existing, rebuild_base_graph, catalog, gds, base_G,
                   need_nodes, need_edges, attempt, flow, ctx, df, df_edges, node_files,
                   edge_files, manifest_rows, manifest_file, faults, issued, attempts,
                   fails, completed, files0, nontransient_at, slept>>

\* Lines 243-346: the skip check of one window; a skipped window gets its
\* manifest row and the loop continues.
CheckExisting ==
    /\ pc = "check"
    /\ wi <= Len(windows)
    /\ LET nn == need_nodes_of(skip_existing, node_files[wi], cfg)
           ne == need_edges_of(skip_existing, edge_files[wi], cfg)
       IN  /\ need_nodes' = nn
           /\ need_edges' = ne
           /\ IF ~nn /\ ~ne
              THEN /\ manifest_rows' = Append(manifest_rows,
                         ManifestRow(windows[wi],
                                     IF node_files[wi].exists THEN node_files[wi].rows ELSE 0,
                                     IF edge_files[wi].exists THEN edge_files[wi].rows ELSE 0,
                                     cfg, TRUE))
                   /\ completed' = [completed EXCEPT ![wi] = "skipped"]
                   /\ wi' = wi + 1
                   /\ pc' = "check"
              ELSE /\ UNCHANGED <<manifest_rows, completed, wi>>
                   /\ pc' = "clean"
    /\ attempt' = 0
    /\ UNCHANGED <<dvars, fvars, bvars, kvars, lvars, avars, cfg, skip_existing, rebuild_base_graph, catalog, gds, base_G, windows,
                   exc, flow, ctx, df, df_edges, node_files, edge_files, manifest_file,
                   faults, issued, attempts, fails, files0, nontransient_at, slept>>

\* The `for` loop is exhausted: on to the `finally` of line 629.
LoopDone ==
    /\ pc = "check"
    /\ wi > Len(windows)
    /\ pc' = "write_manifest"
    /\ UNCHANGED <<dvars, fvars, bvars, kvars, lvars, avars, cfg, skip_existing, rebuild_base_graph, catalog, gds, base_G, windows,
                   wi, need_nodes, need_edges, attempt, exc, flow, ctx, df, df_edges,
                   node_files, edge_files, manifest_rows, manifest_file, faults, issued,
                   attempts, fails, completed, files0, nontransient_at, slept>>

\* Lines 348-355: an attempt begins; "ensure clean slate" drops both names.
CleanSlate ==
    /\ pc = "clean"
    /\ attempts' = [attempts EXCEPT ![wi] = @ + 1]
    /\ flow' = "none"
    /\ \E f \in {"ok", "first", "second"} :
         /\ f = "ok" \/ CanFault
         /\ Fault(f)
         /\ catalog' = CASE f = "ok" -> clean_slate(catalog, windows[wi])
                         [] f = "first" -> catalog
                         [] OTHER -> catalog \ {window_graph_name(windows[wi])}
         /\ IF f = "ok" THEN pc' = "filter_temp" /\ exc' = "none"
                        ELSE pc' = "except" /\ exc' = "transient"
    /\ Issue("window", {"gds.graph.drop"})
    /\ UNCHANGED <<dvars, fvars, bvars, kvars, lvars, avars, cfg, skip_existing, rebuild_base_graph, gds, base_G, windows, wi,
                   need_nodes, need_edges, attempt, ctx, df, df_edges, node_files, edge_files,
                   manifest_rows, manifest_file, fails, completed, files0, nontransient_at, slept>>

\* Lines 360-367: pass 1, `with gds.graph.filter(temp_graph_name, base_G, ...)`.
FilterTemp ==
    /\ pc = "filter_temp"
    /\ \E o \in Outcomes :
         /\ Fault(o)
         /\ IF o = "ok"
            THEN /\ catalog' = catalog \cup {temp_graph_name(windows[wi])}
                 /\ ctx' = 1
                 /\ pc' = "degree"
                 /\ exc' = exc
            ELSE /\ UNCHANGED <<catalog, ctx>>
                 /\ RaiseKind("transient")
    /\ Issue("window", {"gds.graph.filter"})
    /\ UNCHANGED <<dvars, fvars, bvars, kvars, lvars, avars, cfg, skip_existing, rebuild_base_graph, gds, base_G, windows, wi,
                   need_nodes, need_edges, attempt, flow, df, df_edges, node_files,
                   edge_files, manifest_rows, manifest_file, attempts, fails, completed,
                   files0, nontransient_at, slept>>

\* Line 372: pass 2, gds.degree.mutate(temp_G, mutateProperty="active_degree").
DegreeMutate ==
    /\ pc = "degree"
    /\ \E o \in Outcomes :
         /\ Fault(o)
         /\ IF o = "ok" THEN pc' = "filter_final" /\ exc' = exc
                        ELSE RaiseKind("transient")
    /\ Issue("window", {"gds.degree.mutate"})
    /\ UNCHANGED <<dvars, fvars, bvars, kvars, lvars, avars, cfg, skip_existing, rebuild_base_graph, catalog, gds, base_G, windows,
                   wi, need_nodes, need_edges, attempt, flow, ctx, df, df_edges,
                   node_files, edge_files, manifest_rows, manifest_file, attempts, fails,
                   completed, files0, nontransient_at, slept>>

\* Lines 379-387: pass 3, `with gds.graph.filter(window_graph_name, temp_G, ...)`,
\* then df = None, df_edges = None.
FilterFinal ==
    /\ pc = "filter_final"
    /\ \E o \in Outcomes :
         /\ Fault(o)
         /\ IF o = "ok"
            THEN /\ catalog' = catalog \cup {window_graph_name(windows[wi])}
                 /\ ctx' = 2
                 /\ df' = NoFrame
                 /\ df_edges' = NoFrame
                 /\ pc' = "algos"
                 /\ exc' = exc
            ELSE /\ UNCHANGED <<catalog, ctx, df, df_edges>>
                 /\ RaiseKind("transient")
    /\ Issue("window", {"gds.graph.filter"})
    /\ UNCHANGED <<dvars, fvars, bvars, kvars, lvars, avars, cfg, skip_existing, rebuild_base_graph, gds, base_G, windows, wi,
                   need_nodes, need_edges, attempt, flow, node_files,
                   edge_files, manifest_rows, manifest_file, attempts, fails, completed,
                   files0, nontransient_at, slept>>

\* Lines 389-420: if need_nodes, run the algorithms and stream the node
\* properties into df.  Besides a transient failure the engine may reject a
\* call for good (an unsupported algorithm configuration, a feature property
\* the graph lacks): a ClientError, of the classes the handler catches.
Algorithms ==
    /\ pc = "algos"
    /\ IF need_nodes
       THEN /\ \E o \in Outcomes \cup (IF CanFault THEN {"permanent ClientError"} ELSE {}) :
                 /\ Fault(o)
                 /\ IF o = "ok"
                    THEN /\ df' = Frame(node_frame_cols(cfg), node_rows(wi))
                         /\ pc' = "edges"
                         /\ exc' = exc
                    ELSE /\ df' = df
                         /\ RaiseKind("transient")
                 /\ nontransient_at' = IF o = "permanent ClientError"
                                       THEN [nontransient_at EXCEPT ![wi] = attempts[wi]]
                                       ELSE nontransient_at
            /\ Issue("window", {"algorithm.mutate", "gds.graph.nodeProperties.stream"})
       ELSE /\ pc' = "edges"
            /\ UNCHANGED <<df, exc, faults, issued, nontransient_at, slept>>
    /\ UNCHANGED <<dvars, fvars, bvars, kvars, lvars, avars, cfg, skip_existing, rebuild_base_graph, catalog, gds, base_G, windows,
                   wi, need_nodes, need_edges, attempt, flow, ctx, df_edges, node_files,
                   edge_files, manifest_rows, manifest_file, attempts, fails, completed,
                   files0, slept>>

\* Lines 422-430: if need_edges, export_window_edges into df_edges.
ExportEdges ==
    /\ pc = "edges"
    /\ IF need_edges
       THEN /\ \E o \in Outcomes :
                 /\ Fault(o)
                 /\ IF o = "ok"
                    THEN /\ df_edges' = Frame(edge_frame_cols(cfg), edge_rows(wi))
                         /\ pc' = "ids"
                         /\ exc' = exc
                    ELSE /\ df_edges' = df_edges
                         /\ RaiseKind("transient")
            /\ Issue("window", {"gds.graph.relationships.stream",
                                "gds.graph.nodeProperties.stream"})
       ELSE /\ pc' = "ids"
            /\ UNCHANGED <<df_edges, exc, faults, issued>>
    /\ UNCHANGED <<dvars, fvars, bvars, kvars, lvars, avars, cfg, skip_existing, rebuild_base_graph, catalog, gds, base_G, windows,
                   wi, need_nodes, need_edges, attempt, flow, ctx, df, node_files,
                   edge_files, manifest_rows, manifest_file, attempts, fails, completed,
                   files0, nontransient_at, slept>>

\* Lines 436-458: the identifier query, gds.run_cypher(id_query).
FetchIds ==
    /\ pc = "ids"
    /\ \E o \in Outcomes :
         /\ Fault(o)
         /\ IF o = "ok" THEN pc' = "fcr" /\ exc' = exc
                        ELSE RaiseKind("transient")
    /\ Issue("window", {"gds.run_cypher"})
    /\ UNCHANGED <<dvars, fvars, bvars, kvars, lvars, avars, cfg, skip_existing, rebuild_base_graph, catalog, gds, base_G, windows,
                   wi, need_nodes, need_edges, attempt, flow, ctx, df, df_edges,
                   node_files, edge_files, manifest_rows, manifest_file, attempts, fails,
                   completed, files0, nontransient_at, slept>>

\* Lines 464-485: if df is not None, compute_fcr_temporal (a Cypher query).
ComputeFcr ==
    /\ pc = "fcr"
    /\ IF df.exists
       THEN /\ \E o \in Outcomes :
                 /\ Fault(o)
                 /\ IF o = "ok"
                    THEN /\ df' = [df EXCEPT !.fcr = fcr_of_window(gds, windows[wi])]
                         /\ pc' = "write"
                         /\ exc' = exc
                    ELSE /\ df' = df
                         /\ RaiseKind("transient")
            /\ Issue("window", {"gds.run_cypher"})
       ELSE /\ pc' = "write"
            /\ UNCHANGED <<df, exc, faults, issued>>
    /\ UNCHANGED <<dvars, fvars, bvars, kvars, lvars, avars, cfg, skip_existing, rebuild_base_graph, catalog, gds, base_G, windows,
                   wi, need_nodes, need_edges, attempt, flow, ctx, df_edges,
                   node_files, edge_files, manifest_rows, manifest_file, attempts, fails,
                   completed, files0, nontransient_at, slept>>

\* Lines 487-549: the feature transformations (which raise ValueError on a
\* vector column with nulls or a wrong dimension) and the two write_parquet
\* calls.
WriteSnapshots ==
    /\ pc = "write"
    /\ \E o \in {"ok"} \cup (IF CanFault /\ df.exists THEN {"ValueError"} ELSE {}) :
         /\ Fault(o)
         /\ IF o = "ok"
            THEN /\ node_files' = IF df.exists
                       THEN [node_files EXCEPT ![wi] = File(df, params_hash_of(cfg), "this run")]
                       ELSE node_files
                 /\ edge_files' = IF df_edges.exists
                       THEN [edge_files EXCEPT ![wi] =
                                File(df_edges, params_hash_of(cfg), "this run")]
                       ELSE edge_files
                 /\ pc' = "lp"
                 /\ exc' = exc
                 /\ nontransient_at' = nontransient_at
            ELSE /\ UNCHANGED <<node_files, edge_files>>
                 /\ RaiseKind("other")
                 /\ nontransient_at' = [nontransient_at EXCEPT ![wi] = attempts[wi]]
    /\ UNCHANGED <<dvars, fvars, bvars, kvars, lvars, avars, cfg, skip_existing, rebuild_base_graph, catalog, gds, base_G, windows,
                   wi, need_nodes, need_edges, attempt, flow, ctx, df, df_edges,
                   manifest_rows, manifest_file, issued, attempts, fails, completed,
                   files0, slept>>

\* Line 560: `except Exception as lp_err` catches whatever the link prediction
\* step raises, the transient engine errors included.
link_prediction_caught_unless_transient(o) == o # "transient"
link_prediction_caught(o) == TRUE

\* Lines 551-561: the optional link prediction inside its own try; a caught
\* failure is logged only.
LinkPrediction ==
    /\ pc = "lp"
    /\ IF "run_link_prediction" \in cfg.flags /\ df.exists /\ df_edges.exists
       THEN /\ \E o \in Outcomes :
                 /\ Fault(o)
                 /\ IF o = "ok" \/ link_prediction_caught(o)
                    THEN pc' = "record" /\ exc' = exc
                    ELSE RaiseKind(o)
            /\ Issue("window", {"gds.run_cypher"})
       ELSE /\ pc' = "record"
            /\ UNCHANGED <<exc, faults, issued>>
    /\ UNCHANGED <<dvars, fvars, bvars, kvars, lvars, avars, cfg, skip_existing, rebuild_base_graph, catalog, gds, base_G, windows,
                   wi, need_nodes, need_edges, attempt, flow, ctx, df, df_edges,
                   node_files, edge_files, manifest_rows, manifest_file, attempts, fails,
                   completed, files0, nontransient_at, slept>>

\* Lines 563-586: record the window in the manifest rows and `break`.
RecordRow ==
    /\ pc = "record"
    /\ manifest_rows' = Append(manifest_rows,
           ManifestRow(windows[wi], IF df.exists THEN df.rows ELSE 0,
                       IF df_edges.exists THEN df_edges.rows ELSE 0, cfg, FALSE))
    /\ flow' = "break"
    /\ pc' = "exit_inner"
    /\ UNCHANGED <<dvars, fvars, bvars, kvars, lvars, avars, cfg, skip_existing, rebuild_base_graph, catalog, gds, base_G, windows,
                   wi, need_nodes, need_edges, attempt, exc, ctx, df, df_edges,
                   node_files, edge_files, manifest_file, faults, issued, attempts, fails,
                   completed, files0, nontransient_at, slept>>

\* Line 385: leaving `with ... as G` drops the window graph; a failing drop
\* raises in place of whatever was in flight, and the graph stays.
ExitInner ==
    /\ pc = "exit_inner"
    /\ \E o \in Outcomes :
         /\ Fault(o)
         /\ IF o = "ok"
            THEN catalog' = catalog \ {window_graph_name(windows[wi])} /\ exc' = exc
            ELSE catalog' = catalog /\ exc' = "transient"
    /\ ctx' = 1
    /\ pc' = "exit_outer"
    /\ Issue("window", {"gds.graph.drop"})
    /\ UNCHANGED <<dvars, fvars, bvars, kvars, lvars, avars, cfg, skip_existing, rebuild_base_graph, gds, base_G, windows, wi,
                   need_nodes, need_edges, attempt, flow, df, df_edges, node_files,
                   edge_files, manifest_rows, manifest_file, attempts, fails, completed,
                   files0, nontransient_at, slept>>

\* Line 367: leaving `with ... as temp_G` drops the temporal-stage graph.
ExitOuter ==
    /\ pc = "exit_outer"
    /\ \E o \in Outcomes :
         /\ Fault(o)
         /\ IF o = "ok"
            THEN catalog' = catalog \ {temp_graph_name(windows[wi])} /\ exc' = exc
            ELSE catalog' = catalog /\ exc' = "transient"
    /\ ctx' = 0
    /\ pc' = IF exc' = "transient" THEN "except" ELSE "finally"
    /\ Issue("window", {"gds.graph.drop"})
    /\ UNCHANGED <<dvars, fvars, bvars, kvars, lvars, avars, cfg, skip_existing, rebuild_base_graph, gds, base_G, windows, wi,
                   need_nodes, need_edges, attempt, flow, df, df_edges, node_files,
                   edge_files, manifest_rows, manifest_file, attempts, fails, completed,
                   files0, nontransient_at, slept>>

\* Lines 588-617: the handler of the transient error classes: count the
\* attempt, re-raise when the retries are exhausted, else reconnect
\* (connect_gds, ensure_base_graph, graph.get, all inside try/except
\* Exception) and sleep.
ExceptTransient ==
    /\ pc = "except"
    /\ attempt' = attempt + 1
    /\ fails' = [fails EXCEPT ![wi] = @ + 1]
    /\ IF retries_exhausted(attempt + 1, max_retries)
       THEN /\ flow' = "raise"
            /\ UNCHANGED <<exc, gds, base_G, catalog, faults, issued, slept>>
       ELSE /\ flow' = "retry"
            /\ exc' = "none"
            /\ slept' = [slept EXCEPT ![wi] = Append(@, backoff(retry_backoff_s, attempt + 1))]
            /\ \E o \in {"ok"} \cup (IF CanFault THEN {"connect_failed", "ensure_failed"}
                                                ELSE {}) :
                 LET r == ensure_base_graph(catalog, FALSE, "none")
                 IN  /\ Fault(o)
                     /\ gds' = IF o = "connect_failed" THEN gds ELSE gds + 1
                     /\ base_G' = IF o = "ok" THEN gds + 1 ELSE base_G
                     /\ catalog' = IF o = "ok" THEN r.catalog ELSE catalog
                     /\ Issue("reconnect",
                              CASE o = "ok" -> {"connect_gds"} \cup r.calls
                                [] o = "ensure_failed" -> {"connect_gds", "gds.graph.get"}
                                [] OTHER -> {"connect_gds"})
    /\ pc' = "finally"
    /\ UNCHANGED <<dvars, fvars, bvars, kvars, lvars, avars, cfg, skip_existing, rebuild_base_graph, windows, wi, need_nodes,
                   need_edges, ctx, df, df_edges, node_files, edge_files, manifest_rows,
                   manifest_file, attempts, completed, files0, nontransient_at>>

\* Lines 618-624: `finally: gds.graph.drop(temp_graph_name)`; what it raises
\* leaves the retry loop.  Then the attempt's exit: the exception in flight
\* leaves the window loop, `break` goes on to the next window, and a handled
\* transient error starts the next attempt.
FinallyDropTemp ==
    /\ pc = "finally"
    /\ \E o \in Outcomes :
         /\ Fault(o)
         /\ IF o = "ok"
            THEN catalog' = catalog \ {temp_graph_name(windows[wi])} /\ exc' = exc
            ELSE catalog' = catalog /\ exc' = "transient"
    /\ Issue("window", {"gds.graph.drop"})
    /\ IF exc' # "none"
       THEN pc' = after_loop_raise /\ UNCHANGED <<wi, completed>>
       ELSE IF flow = "break"
       THEN /\ pc' = "check"
            /\ wi' = wi + 1
            /\ completed' = [completed EXCEPT ![wi] = "processed"]
       ELSE pc' = "clean" /\ UNCHANGED <<wi, completed>>
    /\ UNCHANGED <<dvars, fvars, bvars, kvars, lvars, avars, cfg, skip_existing, rebuild_base_graph, gds, base_G, windows,
                   need_nodes, need_edges, attempt, flow, ctx, df, df_edges, node_files,
                   edge_files, manifest_rows, manifest_file, attempts, fails, files0, nontransient_at, slept>>

\* Lines 629-632: `finally:` write the manifest; the exception in flight, if
\* any, then leaves run_windows.
WriteManifest ==
    /\ pc = "write_manifest"
    /\ manifest_file' = [written |-> TRUE, rows |-> manifest_rows]
    /\ pc' = IF exc = "none" THEN "done" ELSE "raised"
    /\ UNCHANGED <<dvars, fvars, bvars, kvars, lvars, avars, cfg, skip_existing, rebuild_base_graph, catalog, gds, base_G, windows,
                   wi, need_nodes, need_edges, attempt, exc, flow, ctx, df, df_edges,
                   node_files, edge_files, manifest_rows, faults, issued, attempts, fails,
                   completed, files0, nontransient_at, slept>>

Next ==
    \/ EnsureBase
    \/ GetBase
    \/ Plan
    \/ CheckExisting
    \/ LoopDone
    \/ CleanSlate
    \/ FilterTemp
    \/ DegreeMutate
    \/ FilterFinal
    \/ Algorithms
    \/ ExportEdges
    \/ FetchIds
    \/ ComputeFcr
    \/ WriteSnapshots
    \/ LinkPrediction
    \/ RecordRow
    \/ ExitInner
    \/ ExitOuter
    \/ ExceptTransient
    \/ FinallyDropTemp
    \/ WriteManifest

PipelineParked ==
    /\ pc = "parked"
    /\ cfg = "none" /\ skip_existing = "none" /\ rebuild_base_graph = "none"
    /\ catalog = "none" /\ gds = "none" /\ base_G = "none" /\ windows = "none"
    /\ wi = "none" /\ need_nodes = "none" /\ need_edges = "none" /\ attempt = "none"
    /\ exc = "none" /\ flow = "none" /\ ctx = "none" /\ df = "none" /\ df_edges = "none"
    /\ node_files = "none" /\ edge_files = "none" /\ manifest_rows = "none"
    /\ manifest_file = "none" /\ faults = "none" /\ issued = "none" /\ attempts = "none"
    /\ fails = "none" /\ completed = "none" /\ files0 = "none"
    /\ nontransient_at = "none" /\ slept = "none"


(***************************************************************************)
(* SpecBase: ensure_base_graph called once on every catalog, schema,       *)
(* configuration and engine answer of a bounded set.                       *)
(***************************************************************************)
\* _required_base_node_properties(cfg), with the default
\* hashgnn_feature_properties = ("bank_feats",).
required_base_node_properties(c) ==
    {"tStart", "tEnd"}
    \cup (IF "export_feature_vectors" \in c.flags \/ "export_feature_blocks" \in c.flags
          THEN {"bank_feats"} ELSE {})
    \cup (IF "export_feature_vectors" \in c.flags THEN {"network_feats", "is_dead"} ELSE {})
    \cup (IF "run_hashgnn" \in c.flags THEN {"bank_feats"} ELSE {})

\* The node properties of the native projection (base_props).
base_props == {"tStart", "tEnd", "is_dead", "gds_id"}

\* The node-property schemas an existing graph of the configured name may
\* have: that of this projection, a poorer one, and one with the feature
\* arrays.
ExistingSchemas ==
    {base_props, {"tStart", "tEnd"}, base_props \cup {"bank_feats", "network_feats"}}

\* nodeCount and relationshipCount as the engine reports them.
Counts == {0, 1, 2}

BaseInit ==
    /\ \E cat \in {{}, {BaseGraphName}}, sch \in ExistingSchemas, rb \in BOOLEAN,
          fl \in CfgChoices \cup {{"export_edges"}}, nc \in Counts, rc \in Counts,
          f \in {"none", "get", "drop", "project"} :
            /\ f = "none" \/ ensure_base_graph(cat, rb, f).faulted
            /\ bIn = [catalog |-> cat,
                      schema |-> IF cat = {} THEN {} ELSE sch,
                      rebuild |-> rb,
                      cfg |-> Config(fl, "Id", FirstYear, FirstYear),
                      nodeCount |-> nc, relationshipCount |-> rc, fail_at |-> f]
    /\ bOut = [status |-> "pending", calls |-> {}, catalog |-> {}, schema |-> {}]

\* One call ensure_base_graph(gds, cfg=cfg, rebuild=rebuild).
EnsureBaseGraph ==
    /\ bOut.status = "pending"
    /\ LET r == ensure_base_graph(bIn.catalog, bIn.rebuild, bIn.fail_at)
       IN  bOut' = [status |-> IF r.raised THEN "raised" ELSE "returned",
                    calls |-> r.calls,
                    catalog |-> r.catalog,
                    schema |-> IF BaseGraphName \notin r.catalog THEN {}
                               ELSE IF "gds.graph.project" \in r.calls THEN base_props
                               ELSE bIn.schema]
    /\ UNCHANGED <<bIn, dvars, fvars, kvars, lvars, avars, pvars>>

(***************************************************************************)
(* feature_blocks.py and the block export of run_windows (pipeline.py      *)
(* lines 504-519): the bank_feats vector of a node is cut into named       *)
(* blocks and a remainder block.                                           *)
(***************************************************************************)

\* feature_blocks.py line 3.
BANK_FEATS_DIM == 60

\* feature_blocks.py lines 5-12: block name -> list of indices.
BANK_FEATS_BLOCKS ==
    [state_feats      |-> <<45, 54, 55, 56, 57, 58, 59>>,
     legal_feats      |-> <<1, 9, 14, 15, 16, 17, 18, 19, 21, 22, 27, 41>>,
     governance_feats |-> <<3, 4, 5, 6, 10, 33, 34, 38, 40, 42, 44, 46>>,
     finance_feats    |-> <<8, 12, 23, 28, 32, 36, 39, 47>>,
     ip_feats         |-> <<25, 31, 37, 48>>,
     ops_feats        |-> <<20, 43, 49, 50, 51, 52, 53>>]

\* range(BANK_FEATS_DIM) as a list.
range_dim == [k \in 1..BANK_FEATS_DIM |-> k - 1]

\* The indices a list holds.
Indices(list) == {list[k] : k \in DOMAIN list}

\* feature_blocks.py lines 15-20: the indices no named block uses, ascending.
other_including_used == range_dim
other_bank_feats_indices ==
    LET used == UNION {Indices(BANK_FEATS_BLOCKS[b]) : b \in DOMAIN BANK_FEATS_BLOCKS}
        unused(i) == i \notin used
    IN  SelectSeq(range_dim, unused)

\* A bank_feats vector of a node: dim entries, all 0 but the entry `hot`
\* (0-based), which is `value`.
VecAt(v, j) == IF j = v.hot THEN v.value ELSE 0

\* parquet.py lines 46-75, slice_vector_column for one row: a ValueError when
\* the vector has not the expected dimension, else mat[:, indices].
slice_vector_column(v, indices, expected_dim) ==
    IF v.dim # expected_dim
    THEN [raised |-> TRUE, column |-> <<>>]
    ELSE [raised |-> FALSE, column |-> [k \in DOMAIN indices |-> VecAt(v, indices[k])]]

\* The exported block columns: the named blocks and "other_feats".
ExportedBlocks == DOMAIN BANK_FEATS_BLOCKS \cup {"other_feats"}
block_indices(b) ==
    IF b = "other_feats" THEN other_bank_feats_indices ELSE BANK_FEATS_BLOCKS[b]

FeatValues == {1, 2, 3}
BlocksInit ==
    /\ kIn \in {[dim |-> d, hot |-> h, value |-> x] :
                    d \in {BANK_FEATS_DIM - 1, BANK_FEATS_DIM},
                    h \in 0..(BANK_FEATS_DIM - 1), x \in FeatValues}
    /\ kIn.hot < kIn.dim
    /\ kOut = [stage |-> "frame", blocks |-> <<>>]

\* pipeline.py lines 504-519: every named block, then the remainder, is
\* sliced out of bank_feats; the first slice raises when the dimension is
\* not BANK_FEATS_DIM.
ExportFeatureBlocks ==
    /\ kOut.stage = "frame"
    /\ LET sliced == [b \in ExportedBlocks |->
                          slice_vector_column(kIn, block_indices(b), BANK_FEATS_DIM)]
       IN  kOut' = IF \E b \in ExportedBlocks : sliced[b].raised
                   THEN [stage |-> "raised", blocks |-> <<>>]
                   ELSE [stage |-> "sliced",
                         blocks |-> [b \in ExportedBlocks |-> sliced[b].column]]
    /\ UNCHANGED <<kIn, dvars, fvars, bvars, lvars, avars, pvars>>

(***************************************************************************)
(* link_prediction.py: the per-window link prediction workflow.            *)
(* Probabilities and AUC values are held in hundredths.                    *)
(***************************************************************************)

\* LinkPredictionConfig.variants, lines 30-37, in order.
LpVariants ==
    <<"baseline_fastrp", "string_only", "fastrp_string", "fastrp_string_louvain",
      "fastrp_string_wcc", "fastrp_string_full">>

\* `"fastrp" in variant_name` (lines 322, 514).
uses_fastrp(variant) == variant # "string_only"

\* LinkPredictionConfig.min_training_samples (line 41; 100 in the source),
\* scaled down to the size of the graphs explored here.
MinTrainingSamples == 2
min_training_samples == MinTrainingSamples

\* config.py line 73: lp_threshold = 0.7.
lp_threshold == 70

\* The person pairs of the graph store that are explored: both directions
\* of one pair and one more pair.
LpPairs == {<<1, 2>>, <<2, 1>>, <<1, 3>>}
Reverse(p) == <<p[2], p[1]>>

\* The `source` property of a FAMILY relationship: a registry value, the
\* value 'imputed', or no property at all ("null"); "absent": the pair has no
\* FAMILY relationship.
FamilySources == {"absent", "registry", "imputed", "null"}

\* Cypher's `a <> b`: null when an operand is null.
cypher_neq(a, b) ==
    IF a = "null" \/ b = "null" THEN "null" ELSE IF a # b THEN "true" ELSE "false"

\* Lines 72-82, fetch_sim_name_pairs(include_family=False): one row per
\* SIM_NAME relationship.
fetch_sim_name_pairs(graph) == graph.sim_name

\* Lines 97-117, fetch_official_family_edges: the FAMILY relationships that
\* pass `WHERE f.source <> 'imputed'` (a WHERE keeps a row only when its
\* predicate is true).
fetch_official_family_edges(graph) ==
    {p \in LpPairs : /\ graph.family[p] # "absent"
                     /\ cypher_neq(graph.family[p], "imputed") = "true"}

\* Lines 146-149 and 483-486: the family edges in both directions.
family_set(family_df) == family_df \cup {Reverse(p) : p \in family_df}

\* Lines 151-156: the positives of the training set.
positives(sim_name_df, family_df) == family_df

\* Lines 159-167: the negatives before sampling.
negatives(sim_name_df, family_df) == sim_name_df \ family_set(family_df)

\* Lines 170-174: negatives.sample(n=n_negatives) when there are more than
\* int(n_positives * max_negatives_ratio), max_negatives_ratio = 1.0: any
\* subset of that size.
sampled_negatives(neg, n_positives) ==
    IF Cardinality(neg) > n_positives
    THEN {s \in SUBSET neg : Cardinality(s) = n_positives}
    ELSE {neg}

\* Lines 122-188, build_training_data: the rows of train_df, as
\* <<pair, label>>; one result per sample drawn.
build_training_data(sim_name_df, family_df) ==
    LET pos == positives(sim_name_df, family_df)
    IN  {{<<p, 1>> : p \in pos} \cup {<<p, 0>> : p \in neg} :
            neg \in sampled_negatives(negatives(sim_name_df, family_df), Cardinality(pos))}

\* Lines 488-494: the candidates for prediction.
candidates_including_family(sim_name_df, family_df) == sim_name_df
candidates_of(sim_name_df, family_df) == sim_name_df \ family_set(family_df)

\* Line 554: mask = probs > cfg.lp_threshold.
above_threshold(prob) == prob > lp_threshold

\* The probabilities a model may give a pair.
LpProbs == {lp_threshold - 1, lp_threshold, lp_threshold + 1}

\* What one variant of the horse race does (lines 454-473): training raises,
\* or it returns with a held-out AUC and the MLflow logging of lines 458-463
\* then succeeds or raises.
AucLevels == {0, 60, 90}
VariantOutcomes ==
    {[trained |-> FALSE, logged |-> FALSE, auc |-> 0]}
    \cup {[trained |-> TRUE, logged |-> l, auc |-> a] : l \in BOOLEAN, a \in AucLevels}

\* Lines 447-450: the state of the race before the first variant.
race_start == [best_variant |-> "None", best_auc |-> -1]

\* Lines 454-473, one iteration: the comparison at line 465 is reached only
\* when neither run_model_variant nor the logging raised.
race_step_not_strict(r, variant, o) ==
    IF o.trained /\ o.logged /\ o.auc >= r.best_auc
    THEN [best_variant |-> variant, best_auc |-> o.auc]
    ELSE r
race_step(r, variant, o) ==
    IF o.trained /\ o.logged /\ o.auc > r.best_auc
    THEN [best_variant |-> variant, best_auc |-> o.auc]
    ELSE r

\* Lines 452-473: the race over the first n variants with the given outcomes.
RECURSIVE horse_race(_, _)
horse_race(outcomes, n) ==
    IF n = 0 THEN race_start
    ELSE race_step(horse_race(outcomes, n - 1), LpVariants[n], outcomes[n])

\* The races explored by SpecLP: every variant fails, or exactly one trains.
RaceFailed == [trained |-> FALSE, logged |-> FALSE, auc |-> 0]
LpRaces ==
    {[i \in DOMAIN LpVariants |-> RaceFailed]}
    \cup {[i \in DOMAIN LpVariants |->
              IF i = k THEN [trained |-> TRUE, logged |-> TRUE, auc |-> 90] ELSE RaceFailed] :
          k \in DOMAIN LpVariants}

MaxLpRuns == 2
LpStores == {{}, {<<1, 3>>}}

LpInit ==
    /\ lIn \in [sim_name : SUBSET LpPairs,
                family : [LpPairs -> FamilySources],
                predicted : LpStores]
    /\ lOut = [pc |-> "fetch", run |-> 1, sim_name_df |-> {}, family_df |-> {},
               train_df |-> {}, best_variant |-> "None", result |-> "pending",
               predicted_edges |-> {}, stored |-> lIn.predicted]
    /\ race = "none"

\* Lines 424-434: the two queries; either may raise, and an empty answer
\* ends the workflow with None.
LpFetch ==
    /\ lOut.pc = "fetch"
    /\ \E o \in {"ok", "raises"} :
         LET s == fetch_sim_name_pairs(lIn)
             f == fetch_official_family_edges(lIn)
         IN  lOut' = IF o = "raises"
                 THEN [lOut EXCEPT !.pc = "ended", !.result = "raised"]
                 ELSE IF s = {}
                 THEN [lOut EXCEPT !.pc = "ended", !.result = "None", !.sim_name_df = s]
                 ELSE IF f = {}
                 THEN [lOut EXCEPT !.pc = "ended", !.result = "None", !.sim_name_df = s,
                                   !.family_df = f]
                 ELSE [lOut EXCEPT !.pc = "build", !.sim_name_df = s, !.family_df = f]
    /\ UNCHANGED <<lIn, race, dvars, fvars, bvars, kvars, avars, pvars>>

\* Lines 436-444: the training set; too few rows end the workflow with None.
LpBuild ==
    /\ lOut.pc = "build"
    /\ \E t \in build_training_data(lOut.sim_name_df, lOut.family_df) :
         lOut' = IF Cardinality(t) < min_training_samples
                 THEN [lOut EXCEPT !.pc = "ended", !.result = "None", !.train_df = t]
                 ELSE [lOut EXCEPT !.pc = "race", !.train_df = t]
    /\ UNCHANGED <<lIn, race, dvars, fvars, bvars, kvars, avars, pvars>>

\* Lines 446-479: the horse race; without a best model the workflow ends
\* with None.
LpRace ==
    /\ lOut.pc = "race"
    /\ \E outcomes \in LpRaces :
         LET r == horse_race(outcomes, Len(LpVariants))
         IN  lOut' = IF r.best_variant = "None"
                     THEN [lOut EXCEPT !.pc = "ended", !.result = "None"]
                     ELSE [lOut EXCEPT !.pc = "predict", !.best_variant = r.best_variant]
    /\ UNCHANGED <<lIn, race, dvars, fvars, bvars, kvars, avars, pvars>>

\* Lines 481-567: the candidates; with a fastrp variant those without an
\* embedding are dropped (np.stack raises when none is left); the model gives
\* each a probability, and those above the threshold are returned.
LpPredict ==
    /\ lOut.pc = "predict"
    /\ LET cand == candidates_of(lOut.sim_name_df, lOut.family_df)
       IN  IF cand = {}
           THEN lOut' = [lOut EXCEPT !.pc = "ended", !.result = "frame"]
           ELSE \E valid \in SUBSET cand :
                  /\ valid = cand \/ uses_fastrp(lOut.best_variant)
                  /\ IF valid = {}
                     THEN lOut' = [lOut EXCEPT !.pc = "ended", !.result = "raised"]
                     ELSE \E probs \in [valid -> LpProbs] :
                            lOut' = [lOut EXCEPT
                                !.pc = "ended", !.result = "frame",
                                !.predicted_edges =
                                    {[pair |-> p, probability |-> probs[p]] :
                                        p \in {q \in valid : above_threshold(probs[q])}}]
    /\ UNCHANGED <<lIn, race, dvars, fvars, bvars, kvars, avars, pvars>>

\* The workflow is run again for the same window.
LpRunAgain ==
    /\ lOut.pc = "ended"
    /\ lOut.run < MaxLpRuns
    /\ lOut' = [lOut EXCEPT !.pc = "fetch", !.run = @ + 1, !.result = "pending",
                            !.predicted_edges = {}, !.best_variant = "None",
                            !.train_df = {}, !.sim_name_df = {}, !.family_df = {}]
    /\ UNCHANGED <<lIn, race, dvars, fvars, bvars, kvars, avars, pvars>>

\* The horse race alone, variant by variant (lines 446-479).
RaceInit ==
    /\ race = [done |-> 0, outcomes |-> <<>>, best |-> race_start, result |-> "pending"]
    /\ lIn = "none" /\ lOut = "none"

RunVariant ==
    /\ race.done < Len(LpVariants)
    /\ \E o \in VariantOutcomes :
         race' = [race EXCEPT !.done = @ + 1,
                              !.outcomes = Append(@, o),
                              !.best = race_step(race.best, LpVariants[race.done + 1], o)]
    /\ UNCHANGED <<lIn, lOut, dvars, fvars, bvars, kvars, avars, pvars>>

\* Lines 475-479: no best model, no predictions.
RaceEnd ==
    /\ race.done = Len(LpVariants)
    /\ race.result = "pending"
    /\ race' = [race EXCEPT !.result = IF race.best.best_variant = "None"
                                       THEN "None" ELSE "predicts"]
    /\ UNCHANGED <<lIn, lOut, dvars, fvars, bvars, kvars, avars, pvars>>

(***************************************************************************)
(* metrics.py: run_window_algorithms, one mutate call at a time            *)
(***************************************************************************)

\* The enable flags of the optional algorithms (lines 82, 87, 99, 113, 133).
OptionalAlgoFlags ==
    {"run_wcc", "run_louvain", "run_fastrp", "run_hashgnn", "run_node2vec"}

\* Lines 17-144: the mutate calls in the order of the function's text; each
\* with its mutateProperty, the condition under which it is issued and the
\* names appended to properties_written after the call returned.
AlgoSteps ==
    << [prop |-> "page_rank",          cond |-> "always",       appended |-> <<"page_rank">>],
       [prop |-> "in_degree",          cond |-> "always",       appended |-> <<"in_degree">>],
       [prop |-> "out_degree",         cond |-> "always",       appended |-> <<"out_degree", "out_degree">>],
       [prop |-> "family_degree",      cond |-> "has_family",   appended |-> <<"family_degree">>],
       [prop |-> "betweenness",        cond |-> "always",       appended |-> <<"betweenness">>],
       [prop |-> "closeness",          cond |-> "always",       appended |-> <<"closeness">>],
       [prop |-> "eigenvector",        cond |-> "always",       appended |-> <<"eigenvector">>],
       [prop |-> "wcc",                cond |-> "run_wcc",      appended |-> <<"wcc">>],
       [prop |-> "community_louvain",  cond |-> "run_louvain",  appended |-> <<"community_louvain">>],
       [prop |-> "fastrp_embedding",   cond |-> "run_fastrp",   appended |-> <<"fastrp_embedding">>],
       [prop |-> "hash_gnn_embedding", cond |-> "run_hashgnn",  appended |-> <<"hash_gnn_embedding">>],
       [prop |-> "node2vec_embedding", cond |-> "run_node2vec", appended |-> <<"node2vec_embedding">>] >>

\* The if of a step: "FAMILY" in G.relationship_types() (line 37) or the
\* step's cfg flag.
step_enabled(step, in) ==
    CASE step.cond = "always" -> TRUE
      [] step.cond = "has_family" -> in.has_family
      [] OTHER -> step.cond \in in.flags

\* One call of run_window_algorithms: the flags of cfg, whether G has FAMILY
\* relationships, and which of the calls issued the engine fails (0: none).
AlgosInit ==
    /\ aIn \in [flags : SUBSET OptionalAlgoFlags, has_family : BOOLEAN,
                fail_at : 0 .. Len(AlgoSteps)]
    /\ aOut = [step |-> 1, calls |-> <<>>, properties_written |-> <<>>, status |-> "running"]

\* A step whose condition holds: the mutate call is issued; it raises out of
\* the function, or returns and the step's names are appended.
AlgoCall ==
    /\ aOut.status = "running"
    /\ aOut.step <= Len(AlgoSteps)
    /\ step_enabled(AlgoSteps[aOut.step], aIn)
    /\ LET step == AlgoSteps[aOut.step]
           calls == Append(aOut.calls, step.prop)
       IN IF Len(calls) = aIn.fail_at
            THEN aOut' = [aOut EXCEPT !.calls = calls, !.status = "raised"]
            ELSE aOut' = [aOut EXCEPT !.calls = calls, !.step = @ + 1,
                             !.properties_written = @ \o step.appended]
    /\ UNCHANGED <<aIn, dvars, fvars, bvars, kvars, lvars, pvars>>

\* A step whose condition does not hold is passed over.
AlgoSkip ==
    /\ aOut.status = "running"
    /\ aOut.step <= Len(AlgoSteps)
    /\ ~step_enabled(AlgoSteps[aOut.step], aIn)
    /\ aOut' = [aOut EXCEPT !.step = @ + 1]
    /\ UNCHANGED <<aIn, dvars, fvars, bvars, kvars, lvars, pvars>>

\* Line 146: return properties_written.
AlgoReturn ==
    /\ aOut.status = "running"
    /\ aOut.step > Len(AlgoSteps)
    /\ aOut' = [aOut EXCEPT !.status = "returned"]
    /\ UNCHANGED <<aIn, dvars, fvars, bvars, kvars, lvars, pvars>>

(***************************************************************************)
(* The specifications                                                      *)
(***************************************************************************)
\* The state of a part of the model that a specification does not exercise.
DatesParked == dIn = "none" /\ dOut = "none"
FilterParked == fIn = "none" /\ fOut = "none"
BaseParked == bIn = "none" /\ bOut = "none"
BlocksParked == kIn = "none" /\ kOut = "none"
LpParked == lIn = "none" /\ lOut = "none" /\ race = "none"
AlgosParked == aIn = "none" /\ aOut = "none"

Init == PipelineInit /\ DatesParked /\ FilterParked /\ BaseParked /\ BlocksParked /\ LpParked /\ AlgosParked
Spec == Init /\ [][Next]_vars

InitDates == DatesInit /\ FilterParked /\ BaseParked /\ BlocksParked /\ PipelineParked /\ LpParked /\ AlgosParked
NextDates == PlanWindows
SpecDates == InitDates /\ [][NextDates]_vars

InitFilter == FilterInit /\ DatesParked /\ BaseParked /\ BlocksParked /\ PipelineParked /\ LpParked /\ AlgosParked
NextFilter == TemporalStage \/ DegreeStage \/ FinalStage
SpecFilter == InitFilter /\ [][NextFilter]_vars

InitBase == BaseInit /\ DatesParked /\ FilterParked /\ BlocksParked /\ PipelineParked /\ LpParked /\ AlgosParked
NextBase == EnsureBaseGraph
SpecBase == InitBase /\ [][NextBase]_vars

InitBlocks == BlocksInit /\ DatesParked /\ FilterParked /\ BaseParked /\ PipelineParked /\ LpParked /\ AlgosParked
NextBlocks == ExportFeatureBlocks
SpecBlocks == InitBlocks /\ [][NextBlocks]_vars

InitLP == LpInit /\ DatesParked /\ FilterParked /\ BaseParked /\ BlocksParked /\ AlgosParked /\ PipelineParked
NextLP == LpFetch \/ LpBuild \/ LpRace \/ LpPredict \/ LpRunAgain
SpecLP == InitLP /\ [][NextLP]_vars

InitRace == RaceInit /\ DatesParked /\ FilterParked /\ BaseParked /\ BlocksParked /\ AlgosParked /\ PipelineParked
NextRace == RunVariant \/ RaceEnd
SpecRace == InitRace /\ [][NextRace]_vars

InitAlgos == AlgosInit /\ DatesParked /\ FilterParked /\ BaseParked /\ BlocksParked /\ LpParked /\ PipelineParked
NextAlgos == AlgoCall \/ AlgoSkip \/ AlgoReturn
SpecAlgos == InitAlgos /\ [][NextAlgos]_vars

(***************************************************************************)
(* Properties of run_windows                                               *)
(***************************************************************************)
Views == {g \in catalog : g # BaseGraphName}
HasRow(rows, w, skipped) ==
    \E i \in DOMAIN rows :
        /\ rows[i].window_graph_name = window_graph_name(windows[w])
        /\ rows[i].skipped_existing = skipped
Planned == pc \notin {"ensure_base", "get_base", "plan", "raised_before_try"}
Terminated == pc \in {"done", "raised", "raised_before_try"}
ValidGeometry ==
    cfg.window_years > 0 /\ cfg.step_years > 0 /\ cfg.end_start_year >= cfg.start_year

\* C1: a window whose attempts failed with a transient engine error N times
\* in a row, N < max_retries, and whose next attempt succeeded was attempted
\* exactly N+1 times, is processed (it has a manifest row that is not marked
\* skipped) and the loop has moved on to the next window; and while fewer
\* than max_retries attempts of the current window have failed, the handler
\* never gives up on it.
C1_RetryThenSuccess ==
    Planned =>
        \A w \in DOMAIN windows :
            /\ (completed[w] = "processed" /\ fails[w] < max_retries) =>
                   /\ attempts[w] = fails[w] + 1
                   /\ HasRow(manifest_rows, w, FALSE)
                   /\ wi > w
            /\ (wi = w /\ fails[w] < max_retries) => flow # "raise"

C1_Witness ==
    /\ Planned
    /\ \E w \in DOMAIN windows :
          /\ completed[w] = "processed"
          /\ fails[w] = 1
          /\ fails[w] < max_retries
          /\ attempts[w] = 2
          /\ wi = w + 1

\* C2: no window is attempted more than max_retries+1 times, and once
\* max_retries+1 attempts of a window have failed with a transient engine
\* error the run is on its way out with that error: the window is neither
\* skipped nor processed, and no later window has been attempted, recorded or
\* written.
C2_ExhaustedRetriesAbort ==
    Planned =>
        \A w \in DOMAIN windows :
            /\ attempts[w] <= max_retries + 1
            /\ fails[w] <= max_retries + 1
            /\ fails[w] = max_retries + 1 =>
                   /\ pc \in {"finally", "write_manifest", "raised"}
                   /\ exc = "transient"
                   /\ wi = w
                   /\ completed[w] = "no"
                   /\ ~HasRow(manifest_rows, w, TRUE)
                   /\ \A v \in DOMAIN windows :
                          v > w => /\ attempts[v] = 0
                                   /\ completed[v] = "no"
                                   /\ ~HasRow(manifest_rows, v, TRUE)
                                   /\ ~HasRow(manifest_rows, v, FALSE)
                                   /\ node_files[v] = files0.nodes[v]
                                   /\ edge_files[v] = files0.edges[v]

C2_Witness ==
    /\ pc = "raised"
    /\ fails[1] = max_retries + 1
    /\ attempts[1] = max_retries + 1
    /\ Len(windows) > 1

\* C3: once an attempt of a window is over (the next attempt or the next
\* window is about to start, or run_windows has returned or raised) no
\* temp_rw_ or rw_ view exists in the engine.
C3_ViewsReleased ==
    pc \in {"clean", "check", "write_manifest", "done", "raised"} => Views = {}

\* The second run of C4: skip_existing is set and every window has the
\* outputs of a complete run with the same configuration fingerprint.
SecondRun ==
    /\ skip_existing
    /\ ValidGeometry
    /\ \A w \in WindowIds :
          /\ files0.nodes[w].exists
          /\ files0.nodes[w].params_hash = params_hash_of(cfg)
          /\ "export_edges" \in cfg.flags =>
                 /\ files0.edges[w].exists
                 /\ files0.edges[w].params_hash = params_hash_of(cfg)
FilesUntouched == node_files = files0.nodes /\ edge_files = files0.edges
AllRowsSkipped(rows) ==
    /\ Len(rows) = NWindows
    /\ \A i \in DOMAIN rows : rows[i].skipped_existing

\* C4 as stated: the second run issues no remote-engine call at all, rewrites
\* no snapshot file and writes a manifest whose rows are all skipped.
C4_AsStated ==
    SecondRun =>
        /\ issued = {}
        /\ FilesUntouched
        /\ Terminated => /\ manifest_file.written
                         /\ AllRowsSkipped(manifest_file.rows)

\* C4, amended: the second run issues no remote-engine call for any window
\* (its only calls are those of ensure_base_graph and gds.graph.get for the
\* base graph, before the window loop), rewrites no snapshot file, and when
\* it returns its manifest has one row per window, all marked skipped; it can
\* end otherwise only by an error of those base-graph calls.
C4_SecondRunSkipsAll ==
    SecondRun =>
        /\ \A c \in issued : c[1] = "base"
        /\ FilesUntouched
        /\ pc # "raised"
        /\ pc = "done" => /\ manifest_file.written
                          /\ AllRowsSkipped(manifest_file.rows)
        /\ \A w \in WindowIds : attempts[w] = 0

C4_Witness ==
    /\ SecondRun
    /\ pc = "done"
    /\ AllRowsSkipped(manifest_file.rows)
    /\ <<"base", "gds.graph.get">> \in issued

\* The columns the specification says the current configuration requires of
\* a node file: the output property of every enabled algorithm, the feature
\* vectors and the feature blocks.
ConfigNodeCols(c) ==
    Range(run_window_algorithms(c, TRUE)) \cup required_node_cols(c)

\* C5: with skip_existing set, a window whose existing node file lacks a
\* column the current configuration requires, or whose edge file lacks an
\* edge identifier column, is not skipped.
C5_DriftRecomputed ==
    (skip_existing /\ Planned) =>
        \A w \in DOMAIN windows :
            completed[w] = "skipped" =>
                /\ ConfigNodeCols(cfg) \subseteq files0.nodes[w].cols
                /\ "export_edges" \in cfg.flags =>
                       required_edge_cols(cfg) \subseteq files0.edges[w].cols

\* C6 as stated: however the run terminates, errors of ensuring the base
\* graph and of planning included, the manifest file is written and has a row
\* for every window completed or skipped.
ManifestComplete ==
    /\ manifest_file.written
    /\ manifest_file.rows = manifest_rows
    /\ \A w \in DOMAIN windows :
          /\ completed[w] = "processed" => HasRow(manifest_file.rows, w, FALSE)
          /\ completed[w] = "skipped" => HasRow(manifest_file.rows, w, TRUE)

C6_AsStated == Terminated => ManifestComplete

\* C6, amended: when the run terminates after the window loop was entered -
\* normally, by a fatal abort after exhausted retries, or by any other error
\* raised in the loop - the manifest file is written and has a row for every
\* window completed or skipped; an error raised before the loop (ensuring
\* the base graph, getting it, planning the windows) leaves no manifest.
C6_ManifestAfterLoop ==
    /\ pc \in {"done", "raised"} => ManifestComplete
    /\ pc = "raised_before_try" => ~manifest_file.written

C6_Witness ==
    /\ pc = "raised"
    /\ fails[2] = max_retries + 1
    /\ completed[1] \in {"processed", "skipped"}
    /\ ManifestComplete

\* C7: no window identifier appears in two manifest rows, and the rows are in
\* window start order.
C7_OneRowPerWindow ==
    \A i, j \in DOMAIN manifest_rows :
        i < j => manifest_rows[i].window_start_ms < manifest_rows[j].window_start_ms

(***************************************************************************)
(* Window planner properties                                               *)
(***************************************************************************)
ValidDateInput ==
    /\ dIn.window_size > 0
    /\ dIn.step_size > 0
    /\ dIn.span >= 0
    /\ dIn.period_type \in PeriodType

\* The period a window starts at, counted in periods since year 0, read from
\* the window's own fields, and the timestamp at which period k starts.
WindowSub(w) ==
    IF w.quarter # 0 THEN w.quarter
    ELSE IF w.half # 0 THEN w.half
    ELSE IF w.month # 0 THEN w.month
    ELSE 1

PeriodIndex(w, per_year) == (w.start_year * per_year) + (WindowSub(w) - 1)

StartOfPeriodIndex(k, per_year) ==
    utc_timestamp(k \div per_year, ((k % per_year) * (12 \div per_year)) + 1)

\* C8: for every valid call the planner returns windows with end_ms >
\* start_ms, in strictly increasing start order, each starting at the period
\* its fields name, and consecutive starts exactly step_size periods apart.
C8_PlannerSteps ==
    (dOut.raised # "pending" /\ ValidDateInput) =>
        /\ dOut.raised = "none"
        /\ LET ws == dOut.windows
               P == PeriodsPerYear(dIn.period_type)
           IN  \A i \in 1..Len(ws) :
                 /\ ws[i].end_ms > ws[i].start_ms
                 /\ ws[i].start_ms = StartOfPeriodIndex(PeriodIndex(ws[i], P), P)
                 /\ i < Len(ws) =>
                       /\ ws[i].start_ms < ws[i + 1].start_ms
                       /\ PeriodIndex(ws[i + 1], P) = PeriodIndex(ws[i], P) + dIn.step_size

C8_Witness ==
    /\ dOut.raised = "none"
    /\ dIn.period_type = "monthly"
    /\ dIn.step_size = 3
    /\ Len(dOut.windows) >= 4
    /\ dOut.windows[2].month = 4

\* C9: a quarterly, biannual or monthly window of size s that starts at
\* period p of year Y ends exactly at the start of the period s periods
\* later, across any number of year boundaries.
C9_EndIsStartOfLaterPeriod ==
    (dOut.raised = "none" /\ dIn.period_type # "yearly") =>
        LET ws == dOut.windows
            P == PeriodsPerYear(dIn.period_type)
        IN  \A i \in 1..Len(ws) :
              ws[i].end_ms = StartOfPeriodIndex(PeriodIndex(ws[i], P) + dIn.window_size, P)

\* A quarterly window of size 1 starting at Q4 of year Y ends at the start of
\* Q1 of year Y + 1.
C9_Witness ==
    /\ dOut.raised = "none"
    /\ dIn.period_type = "quarterly"
    /\ dIn.window_size = 1
    /\ \E i \in 1..Len(dOut.windows) :
          /\ dOut.windows[i].quarter = 4
          /\ dOut.windows[i].end_ms = period_start_ms(dOut.windows[i].start_year + 1, 1, 0, 0)


(***************************************************************************)
(* Window filter properties                                                *)
(***************************************************************************)
Overlaps(x) == x.tStart < FilterWindow.end_ms /\ x.tEnd > FilterWindow.start_ms

EndNodesKept(r) == r.src \in fOut.nodes /\ r.dst \in fOut.nodes

\* C10 as stated: a node is kept iff its interval overlaps the window; a
\* relationship (between kept nodes) is kept iff it is of a configured type,
\* overlaps the window and is not flagged imputed unless include-imputed is
\* enabled; with include_imputed01 = 0 no flagged relationship is kept.
C10_AsStated ==
    fOut.stage = "temporal" =>
        /\ \A i \in NodeIds : i \in fOut.nodes <=> Overlaps(fIn.graph.nodes[i])
        /\ \A r \in fIn.graph.rels :
              EndNodesKept(r) =>
                (r \in fOut.rels <=>
                    /\ r.type \in fIn.rel_types
                    /\ Overlaps(r)
                    /\ (r.imputedFlag = 0 \/ fIn.include_imputed01 = 1))
        /\ fIn.include_imputed01 = 0 => \A r \in fOut.rels : r.imputedFlag = 0

\* C10 as amended: a node is kept iff its interval overlaps the window; a
\* relationship is kept iff both its end nodes are kept, it is of a
\* configured type, it overlaps the window, and it is not a FAMILY
\* relationship, or is not flagged imputed, or include-imputed is enabled;
\* with include_imputed01 = 0 no FAMILY relationship flagged imputed is kept.
C10_TemporalStage ==
    fOut.stage = "temporal" =>
        /\ \A i \in NodeIds : i \in fOut.nodes <=> Overlaps(fIn.graph.nodes[i])
        /\ \A r \in fIn.graph.rels :
              r \in fOut.rels <=>
                /\ EndNodesKept(r)
                /\ r.type \in fIn.rel_types
                /\ Overlaps(r)
                /\ (r.type # "FAMILY" \/ r.imputedFlag = 0 \/ fIn.include_imputed01 = 1)
        /\ fIn.include_imputed01 = 0 =>
              \A r \in fOut.rels : ~(r.type = "FAMILY" /\ r.imputedFlag = 1)

\* A flagged FAMILY relationship between two kept nodes, overlapping the
\* window, dropped because include_imputed01 = 0.
C10_Witness ==
    /\ fOut.stage = "temporal"
    /\ fIn.include_imputed01 = 0
    /\ fOut.nodes = NodeIds
    /\ fOut.rels = {}
    /\ \E r \in fIn.graph.rels :
          r.type = "FAMILY" /\ r.imputedFlag = 1 /\ Overlaps(r) /\ r.type \in fIn.rel_types

(***************************************************************************)
(* Properties of the structural filter and of ensure_base_graph            *)
(***************************************************************************)
TemporalView ==
    temporal_filter(fIn.graph, FilterWindow.start_ms, FilterWindow.end_ms,
                    fIn.rel_types, fIn.include_imputed01)
\* The relationships of the temporal-stage view that touch node i.
Incident(i) == {r \in TemporalView.rels : r.src = i \/ r.dst = i}

\* C11: the nodes of the final window graph are exactly the nodes of the
\* temporal-stage view that have a relationship in that view (positive
\* degree) or are a Bank or a Company; a window that overlaps no node's
\* validity interval has no node and node_count = 0.
C11_StructuralFilter ==
    fOut.stage = "final" =>
        /\ fOut.nodes = {i \in TemporalView.nodes :
                            \/ Incident(i) # {}
                            \/ fIn.graph.nodes[i].label \in {"Bank", "Company"}}
        /\ fOut.node_count = Cardinality(fOut.nodes)
        /\ (\A i \in NodeIds : ~Overlaps(fIn.graph.nodes[i])) => fOut.node_count = 0

\* C12: with rebuild = false ensure_base_graph returns without projecting
\* only when a graph of the configured name exists whose node-property
\* schema has every property the configuration requires; an existing graph
\* that lacks one is dropped and projected again.
C12_StaleSchemaRebuilt ==
    (bOut.status # "pending" /\ ~bIn.rebuild /\ bIn.fail_at = "none") =>
        LET complete == /\ BaseGraphName \in bIn.catalog
                        /\ required_base_node_properties(bIn.cfg) \subseteq bIn.schema
        IN  /\ "gds.graph.project" \notin bOut.calls => complete
            /\ (BaseGraphName \in bIn.catalog /\ ~complete) =>
                   {"gds.graph.drop", "gds.graph.project"} \subseteq bOut.calls

\* C13: when the projection reports zero nodes or zero relationships,
\* ensure_base_graph raises.
C13_EmptyProjectionFatal ==
    (/\ bOut.status # "pending"
     /\ "gds.graph.project" \in bOut.calls
     /\ bIn.fail_at # "project"
     /\ (bIn.nodeCount = 0 \/ bIn.relationshipCount = 0)) => bOut.status = "raised"

(***************************************************************************)
(* Properties of run_windows: errors and retries                           *)
(***************************************************************************)
\* C14: a run with an invalid window geometry raises before any request is
\* sent to the engine (and attempts no window).
C14_InvalidGeometryFailsFirst ==
    ~ValidGeometry =>
        /\ issued = {}
        /\ pc \in {"ensure_base", "get_base", "plan", "raised_before_try"}
        /\ \A w \in WindowIds : attempts[w] = 0

\* C15: an error that is no transient engine condition (a permanent client
\* error of the engine, an error raised by the program itself), raised
\* during an attempt of a window, is never retried: that attempt stays the
\* window's last one, the window is not completed, no later window is
\* attempted and the manifest is written from the finally block only.
C15_NonTransientNeverRetried ==
    \A w \in WindowIds :
        (Planned /\ nontransient_at[w] > 0) =>
            /\ attempts[w] = nontransient_at[w]
            /\ completed[w] # "processed"
            /\ \A v \in WindowIds : v > w => attempts[v] = 0

\* C16: every re-attempt of a window starts with a connection handle and a
\* base-graph handle that both belong to the connection established after
\* the failure it follows: each handled failure has opened one connection,
\* and both handles are bound to the latest.
RECURSIVE SumUpTo(_, _)
SumUpTo(f, n) == IF n = 0 THEN 0 ELSE f[n] + SumUpTo(f, n - 1)
Reconnections == SumUpTo(fails, NWindows)
C16_ReattemptOnFreshHandles ==
    (pc = "clean" /\ flow = "retry") =>
        /\ gds = 1 + Reconnections
        /\ base_G = gds

\* C17: a re-attempt of a window restarts at the temporal filter stage with
\* no graph of the window's names left in the catalog, so both views are
\* created anew, and it reaches the algorithms with no node or edge frame of
\* the failed attempt bound.
WindowViews(w) == {window_graph_name(w), temp_graph_name(w)}
Reattempt == Planned /\ wi \in WindowIds /\ attempts[wi] > 1
C17_ReattemptFromCleanSlate ==
    Reattempt =>
        /\ flow = "retry" /\ exc = "none" => pc \in {"finally", "clean"}
        /\ pc = "filter_temp" => catalog \cap WindowViews(windows[wi]) = {} /\ ctx = 0
        /\ pc = "degree" => window_graph_name(windows[wi]) \notin catalog
        /\ pc = "algos" => df = NoFrame /\ df_edges = NoFrame
        /\ pc \in {"edges", "ids", "fcr", "write"} /\ ~need_nodes => df = NoFrame
        /\ pc \in {"edges"} => df_edges = NoFrame
C17_Witness ==
    /\ Reattempt
    /\ pc = "filter_temp"
    /\ df # NoFrame
    /\ catalog \cap WindowViews(windows[wi]) = {}

\* C18: when the run aborts on a window whose retries are exhausted, the
\* node and edge snapshot files of that window are as they were when the run
\* began.
C18_NoSnapshotOfExhaustedWindow ==
    \A w \in WindowIds :
        (Planned /\ flow = "raise" /\ wi = w /\ fails[w] = max_retries + 1) =>
            /\ node_files[w] = files0.nodes[w]
            /\ edge_files[w] = files0.edges[w]

\* C19: the delays slept for one window are retry_backoff_s * 2^(k-1) for
\* k = 1, 2, ... in this order, one per handled failure that is retried, so
\* each is twice the one before and every window starts again at
\* retry_backoff_s.
Retried(w) == IF fails[w] > max_retries THEN max_retries ELSE fails[w]
C19_BackoffDoubles ==
    Planned =>
        \A w \in WindowIds :
            /\ Len(slept[w]) = Retried(w)
            /\ \A k \in 1..Len(slept[w]) : slept[w][k] = retry_backoff_s * 2 ^ (k - 1)
            /\ \A k \in 2..Len(slept[w]) : slept[w][k] = 2 * slept[w][k - 1]
C19_Witness ==
    /\ Planned
    /\ Len(slept[1]) = 2
    /\ Len(slept[2]) = 1
    /\ slept[2][1] = retry_backoff_s

\* C20: the named blocks of BANK_FEATS_BLOCKS are pairwise disjoint lists of
\* indices in 0..BANK_FEATS_DIM-1, and with the list of
\* other_bank_feats_indices every index of the vector is in exactly one
\* exported block, once: a vector entry shows in exactly one position of
\* exactly one block column.
Occurrences(list, i) == Cardinality({k \in DOMAIN list : list[k] = i})
C20_BlocksPartition ==
    /\ \A b \in ExportedBlocks : Indices(block_indices(b)) \subseteq 0..(BANK_FEATS_DIM - 1)
    /\ \A a, b \in DOMAIN BANK_FEATS_BLOCKS :
          a # b => Indices(BANK_FEATS_BLOCKS[a]) \cap Indices(BANK_FEATS_BLOCKS[b]) = {}
    /\ \A i \in 0..(BANK_FEATS_DIM - 1) :
          \E b \in ExportedBlocks :
              /\ Occurrences(block_indices(b), i) = 1
              /\ \A a \in ExportedBlocks \ {b} : Occurrences(block_indices(a), i) = 0
    /\ kOut.stage = "sliced" =>
          \E b \in ExportedBlocks :
              /\ Occurrences(kOut.blocks[b], kIn.value) = 1
              /\ \A a \in ExportedBlocks \ {b} : Occurrences(kOut.blocks[a], kIn.value) = 0
C20_Witness ==
    /\ kOut.stage = "sliced"
    /\ kIn.hot = 0
    /\ Occurrences(kOut.blocks["other_feats"], kIn.value) = 1

\* C21: when a run of the link prediction workflow for a window has returned
\* predicted edges, the graph store holds exactly these as the window's
\* predictions: those of the run before are deleted, those of this run
\* inserted, so their number never doubles.
EmittedPairs == {e.pair : e \in lOut.predicted_edges}
C21_WriteBackIdempotent ==
    (lOut.pc = "ended" /\ lOut.result = "frame" /\ lOut.predicted_edges # {}) =>
        lOut.stored = EmittedPairs

\* C22: the rows of the training set with label 1 are exactly the official
\* FAMILY edges that are also a SIM_NAME pair (in either direction).
Label1 == {row[1] : row \in {r \in lOut.train_df : r[2] = 1}}
C22_PositivesHaveSimName ==
    lOut.train_df # {} =>
        Label1 = {p \in lOut.family_df :
                      p \in lOut.sim_name_df \/ Reverse(p) \in lOut.sim_name_df}

\* C23 as stated: among the variants whose training raised nothing, the
\* selected one has the maximum AUC, the first listed on ties; when every
\* variant fails none is selected and nothing is predicted.
Trained(i) == race.outcomes[i].trained
Completed(i) == race.outcomes[i].trained /\ race.outcomes[i].logged
FirstMax(T) ==
    CHOOSE i \in T :
        /\ \A j \in T : race.outcomes[j].auc <= race.outcomes[i].auc
        /\ \A j \in T : race.outcomes[j].auc = race.outcomes[i].auc => i <= j
RECURSIVE EnabledProps(_, _)
EnabledProps(n, in) ==
    IF n = 0 THEN <<>>
    ELSE EnabledProps(n - 1, in)
         \o (IF step_enabled(AlgoSteps[n], in) THEN <<AlgoSteps[n].prop>> ELSE <<>>)

\* C25: run_window_algorithms issues its mutate calls in one fixed order, the
\* call of an optional algorithm iff its flag is set; it stops at the first
\* failing call; and the list it returns has exactly one entry per call
\* issued, in call order.
C25_OneEntryPerCall ==
    /\ aOut.status = "running" => aOut.calls = EnabledProps(aOut.step - 1, aIn)
    /\ aOut.status = "raised" =>
          /\ aOut.calls = EnabledProps(aOut.step, aIn)
          /\ Len(aOut.calls) = aIn.fail_at
    /\ aOut.status = "returned" =>
          /\ aOut.calls = EnabledProps(Len(AlgoSteps), aIn)
          /\ aOut.properties_written = aOut.calls


(***************************************************************************)
(* Properties of the node frame, the skip check and the retry loop         *)
(***************************************************************************)

\* C26: once the FCR step of a window has run, the query was evaluated over
\* that window's own interval - window_start bound to the window's start
\* timestamp, window_end to its end timestamp - and the returned map is keyed
\* by the identifier the pipeline looks the values up with.
C26_FcrOverOwnWindow ==
    (pc \in {"write", "lp", "record"} /\ df.exists) =>
        /\ df.fcr.params.window_start = windows[wi].start_ms
        /\ df.fcr.params.window_end = windows[wi].end_ms
        /\ df.fcr.key = df.fcr.lookup

\* C27: for every manifest row with skipped_existing = true, the params_hash
\* recorded in the row equals the params_hash stored in the rows of the
\* window's output files the row describes.
C27_SkippedUnderSameFingerprint ==
    Planned =>
        \A i \in DOMAIN manifest_rows : \A w \in DOMAIN windows :
            (manifest_rows[i].skipped_existing
             /\ manifest_rows[i].window_start_ms = windows[w].start_ms) =>
                /\ node_files[w].params_hash = manifest_rows[i].params_hash
                /\ ("export_edges" \in cfg.flags /\ edge_files[w].exists) =>
                       edge_files[w].params_hash = manifest_rows[i].params_hash

\* C28: the run is aborted on a transient engine error only after
\* max_retries + 1 attempts of one window have failed; a transient error
\* raised while the window has retries left never terminates the run.
C28_TransientAbortsOnlyWhenExhausted ==
    (pc = "raised" /\ exc = "transient") =>
        \E w \in DOMAIN fails : fails[w] = max_retries + 1

\* C29: when the manifest has been written, node_count and edge_count of every
\* row equal the number of rows of that window's node and edge snapshot
\* files - also when only one of the two was recomputed.
C29_CountsMatchFiles ==
    (pc \in {"done", "raised"} /\ manifest_file.written) =>
        \A i \in DOMAIN manifest_file.rows : \A w \in DOMAIN windows :
            manifest_file.rows[i].window_start_ms = windows[w].start_ms =>
                /\ manifest_file.rows[i].node_count =
                       (IF node_files[w].exists THEN node_files[w].rows ELSE 0)
                /\ "export_edges" \in cfg.flags =>
                       manifest_file.rows[i].edge_count =
                           (IF edge_files[w].exists THEN edge_files[w].rows ELSE 0)

\* The link prediction step of the current window fails in this step.
LinkPredictionFails ==
    /\ pc = "lp"
    /\ "run_link_prediction" \in cfg.flags /\ df.exists /\ df_edges.exists
    /\ faults' = faults + 1

\* C30: a failure inside the link prediction step neither fails nor retries
\* the window: the snapshots written are kept and no exception is in flight,
\* the window's manifest row is then recorded with skipped_existing = false,
\* and after the window's graphs are released processing goes on to the next
\* window.
C30_LinkPredictionFailureSwallowed ==
    [][ /\ LinkPredictionFails =>
              /\ pc' = "record"
              /\ exc' = "none"
              /\ UNCHANGED <<node_files, edge_files, attempt, fails, flow, wi>>
        /\ pc = "record" =>
              /\ Len(manifest_rows') = Len(manifest_rows) + 1
              /\ manifest_rows'[Len(manifest_rows')].window_graph_name
                     = window_graph_name(windows[wi])
              /\ manifest_rows'[Len(manifest_rows')].skipped_existing = FALSE
              /\ flow' = "break"
        /\ (pc = "finally" /\ flow = "break" /\ exc' = "none") =>
              /\ wi' = wi + 1
              /\ pc' = "check"
              /\ completed'[wi] = "processed"
      ]_vars
\* The first window's link prediction failed - the only fault of the run, no
\* attempt of any window failed - and the second window is next.
C30_Witness ==
    /\ pc = "check"
    /\ wi = 2
    /\ "run_link_prediction" \in cfg.flags
    /\ faults = 1
    /\ \A w \in DOMAIN fails : fails[w] = 0
    /\ completed[1] = "processed"
    /\ node_files[1].written_by = "this run"
    /\ edge_files[1].written_by = "this run"
    /\ Len(manifest_rows) = 1
    /\ ~manifest_rows[1].skipped_existing

====
